---- MODULE Spec2Model ----
(***************************************************************************)
(* PollenPal core: PollenTracker.parse_html_response (the Extractor) and   *)
(* get_health_advice (the Advisor).                                        *)
(*                                                                         *)
(* Python values are represented as follows.                               *)
(*   str        a TLA+ string                                              *)
(*   dict       a function whose domain is the set of keys ({} is <<>>)    *)
(*   list       a sequence                                                 *)
(*   None       the record None below where a dict or a Tag is otherwise   *)
(*              held, and the string NoneStr where a str is otherwise held *)
(*   exception  every operator that models code which can raise returns a  *)
(*              result [raised, value]; raised = NoException on return     *)
(* The markup handed to parse_html_response is represented by the element  *)
(* tree html.parser builds from it: a sequence of top-level Tags in        *)
(* document order, each Tag with its attributes, its own text and its      *)
(* child Tags.                                                             *)
(***************************************************************************)
EXTENDS Integers, Sequences, FiniteSets, TLC

VARIABLES
    pc,            \* "idle" | "parsed" | "advised": what the last call was
    html_content,  \* argument of the last parse_html_response call
    data,          \* dict returned by the last parse_html_response call
    advice_arg,    \* argument of the last get_health_advice call
    report,        \* dict returned by the last get_health_advice call
    raised,        \* exception the last call raised, NoException if it returned
    args,          \* parsed command line of the running CLI, None when not running
    last_data,     \* PollenCLI.last_data
    request,       \* the front-end request being answered, NoRequest when none
    fetch,         \* what the network gave during that request
    response,      \* what the front end answered
    fetched,       \* what get_pollen_data made of it: exception, value, calls made
    queried,       \* history: the location the running CLI queried last
    calling,       \* per concurrent caller: the invocation it is in and its position
    frames,        \* per activation: the local variables the invocation writes
    given,         \* arguments of the last call made to a function on its own
    yielded        \* what that call returned or raised

coreVars == <<pc, html_content, data, advice_arg, report, raised>>
frontVars == <<args, last_data, request, fetch, response, fetched, queried>>
concVars == <<calling, frames>>
pureVars == <<given, yielded>>
vars == <<coreVars, frontVars, concVars, pureVars>>

-----------------------------------------------------------------------------
(* Python values *)

None == [NoneType |-> "None"]
NoneStr == "<None>"
EmptyDict == <<>>
EmptyList == <<>>
NoException == ""
AttributeError == "AttributeError"

Ok(v) == [raised |-> NoException, value |-> v]
Raise(e) == [raised |-> e, value |-> None]

Range(s) == {s[i] : i \in DOMAIN s}

\* dict.get(key, default) and Tag.get(key, default)
DictGet(d, key, default) == IF key \in DOMAIN d THEN d[key] ELSE default

\* d[key] = value on a dict (insert or overwrite)
DictSet(d, key, value) ==
    [k \in (DOMAIN d) \cup {key} |-> IF k = key THEN value ELSE d[k]]

\* str.strip() on the texts of the model
StripTable ==
    (" Mon " :> "Mon") @@ ("Mon" :> "Mon") @@ ("Tue" :> "Tue") @@
    ("Wed" :> "Wed") @@ (" 15" :> "15") @@ ("15" :> "15") @@
    ("16" :> "16") @@ ("17" :> "17") @@ ("" :> "") @@ ("  " :> "") @@
    ("High" :> "High") @@ (" Low " :> "Low") @@ ("Low" :> "Low") @@
    ("50-100 ppm" :> "50-100 ppm") @@ ("0-20 ppm " :> "0-20 ppm")
Strip(s) == StripTable[s]

-----------------------------------------------------------------------------
(* The element tree *)

Tag(name, attrs, text, contents) ==
    [name |-> name, attrs |-> attrs, text |-> text, contents |-> contents]

TagGet(tag, key, default) == DictGet(tag.attrs, key, default)

\* Tag.text on a found element; on None it is an AttributeError
TagText(tag) == IF tag = None THEN Raise(AttributeError) ELSE Ok(tag.text)

\* variant: only the tag name is compared, the attribute criterion is ignored
MatchesNameOnly(tag, name, key, value) == tag.name = name

\* one criterion {key: value} of find / find_all; class is multi-valued
MatchAttr(tag, key, value) ==
    IF key = "class"
    THEN value \in Range(TagGet(tag, "class", EmptyList))
    ELSE key \in DOMAIN tag.attrs /\ tag.attrs[key] = value

Matches(tag, name, key, value) == tag.name = name /\ MatchAttr(tag, key, value)

\* the descendants of a list of sibling Tags, in document order
RECURSIVE Descendants(_)
Descendants(tags) ==
    IF tags = <<>> THEN <<>>
    ELSE <<Head(tags)>> \o Descendants(Head(tags).contents)
                        \o Descendants(Tail(tags))

\* soup.find_all(name, {key: value})
find_all(tags, name, key, value) ==
    SelectSeq(Descendants(tags), LAMBDA t : Matches(t, name, key, value))

\* soup.find(name, {key: value}): the first match or None
find(tags, name, key, value) ==
    LET found == find_all(tags, name, key, value)
    IN  IF found = <<>> THEN None ELSE Head(found)

-----------------------------------------------------------------------------
(* PollenTracker.parse_html_response *)

\* the expression  tag.text.strip()
StripText(tag) ==
    LET t == TagText(tag)
    IN  IF t.raised # NoException THEN t ELSE Ok(Strip(t.value))

\* variant: X.text.strip() without the  if X else ""  guard
TextUnguarded(tag, name, cls) ==
    StripText(find(tag.contents, name, "class", cls))

\* the expression  X.text.strip() if X else ""  with X = tag.find(name, {class: cls})
TextOrDefault(tag, name, cls) ==
    LET found == find(tag.contents, name, "class", cls)
    IN  IF found # None THEN StripText(found) ELSE Ok("")

\* one pollen category of a day button: level, count and detail attributes
CategoryOf(button, levelAttr, countAttr, detailAttr) ==
    [level  |-> TagGet(button, levelAttr, ""),
     count  |-> TagGet(button, countAttr, ""),
     detail |-> TagGet(button, detailAttr, "")]

\* the dict literal day_data built for one day button
DayData(button) ==
    LET day_name   == TextOrDefault(button, "span", "day-name")
        day_number == TextOrDefault(button, "span", "day-number")
    IN  IF day_name.raised # NoException THEN day_name
        ELSE IF day_number.raised # NoException THEN day_number
        ELSE Ok([day_name   |-> day_name.value,
                 day_number |-> day_number.value,
                 grass |-> CategoryOf(button, "data-grass", "data-grass-count",
                                      "data-grass-detail"),
                 trees |-> CategoryOf(button, "data-trees", "data-trees-count",
                                      "data-tree-detail"),
                 weeds |-> CategoryOf(button, "data-weeds", "data-weeds-count",
                                      "data-weed-detail")])

\* the test  "active" in button.get("class", [])
IsActive(button) == "active" \in Range(TagGet(button, "class", EmptyList))

\* variant: current_day is assigned only while it is still empty (first wins)
RECURSIVE ForecastLoopFirstWins(_, _, _)
ForecastLoopFirstWins(buttons, current_day, forecast) ==
    IF buttons = <<>> THEN Ok([current_day |-> current_day, forecast |-> forecast])
    ELSE LET button   == Head(buttons)
             day_data == DayData(button)
         IN  IF day_data.raised # NoException THEN day_data
             ELSE ForecastLoopFirstWins(Tail(buttons),
                      IF IsActive(button) /\ current_day = EmptyDict
                      THEN day_data.value ELSE current_day,
                      Append(forecast, day_data.value))

\* variant: each entry is inserted at the front of forecast
RECURSIVE ForecastLoopPrepend(_, _, _)
ForecastLoopPrepend(buttons, current_day, forecast) ==
    IF buttons = <<>> THEN Ok([current_day |-> current_day, forecast |-> forecast])
    ELSE LET button   == Head(buttons)
             day_data == DayData(button)
         IN  IF day_data.raised # NoException THEN day_data
             ELSE ForecastLoopPrepend(Tail(buttons),
                      IF IsActive(button) THEN day_data.value ELSE current_day,
                      <<day_data.value>> \o forecast)

\* variant: the active day goes to current_day only, the others to forecast
RECURSIVE ForecastLoopActiveApart(_, _, _)
ForecastLoopActiveApart(buttons, current_day, forecast) ==
    IF buttons = <<>> THEN Ok([current_day |-> current_day, forecast |-> forecast])
    ELSE LET button   == Head(buttons)
             day_data == DayData(button)
         IN  IF day_data.raised # NoException THEN day_data
             ELSE IF IsActive(button)
                  THEN ForecastLoopActiveApart(Tail(buttons), day_data.value, forecast)
                  ELSE ForecastLoopActiveApart(Tail(buttons), current_day,
                                               Append(forecast, day_data.value))

\* the loop over day_buttons: returns the pair <<current_day, forecast>>
RECURSIVE ForecastLoop(_, _, _)
ForecastLoop(buttons, current_day, forecast) ==
    IF buttons = <<>> THEN Ok([current_day |-> current_day, forecast |-> forecast])
    ELSE LET button   == Head(buttons)
             day_data == DayData(button)
         IN  IF day_data.raised # NoException THEN day_data
             ELSE ForecastLoop(Tail(buttons),
                               IF IsActive(button) THEN day_data.value
                                                   ELSE current_day,
                               Append(forecast, day_data.value))

\* variant: a key that is already stored is not overwritten (first wins)
BreakdownStepKeepFirst(container, detailed_breakdown) ==
    LET pollen_type == TagGet(container, "data-details", "")
        level       == TextOrDefault(container, "p", "level-text")
        ppm         == TextOrDefault(container, "p", "ppm-level")
    IN  IF pollen_type = "" \/ pollen_type \in DOMAIN detailed_breakdown
        THEN Ok(detailed_breakdown)
        ELSE IF level.raised # NoException THEN level
        ELSE IF ppm.raised # NoException THEN ppm
        ELSE Ok(DictSet(detailed_breakdown, pollen_type,
                        [level |-> level.value, ppm |-> ppm.value]))

\* the body of the loop over diagram_containers for one container
BreakdownStep(container, detailed_breakdown) ==
    LET pollen_type == TagGet(container, "data-details", "")
        level       == TextOrDefault(container, "p", "level-text")
        ppm         == TextOrDefault(container, "p", "ppm-level")
    IN  IF pollen_type = "" THEN Ok(detailed_breakdown)
        ELSE IF level.raised # NoException THEN level
        ELSE IF ppm.raised # NoException THEN ppm
        ELSE Ok(DictSet(detailed_breakdown, pollen_type,
                        [level |-> level.value, ppm |-> ppm.value]))

RECURSIVE BreakdownLoop(_, _)
BreakdownLoop(containers, detailed_breakdown) ==
    IF containers = <<>> THEN Ok(detailed_breakdown)
    ELSE LET step == BreakdownStep(Head(containers), detailed_breakdown)
         IN  IF step.raised # NoException THEN step
             ELSE BreakdownLoop(Tail(containers), step.value)

\* data["location"]
LocationOf(soup) ==
    LET city_input == find(soup, "input", "id", "cityName")
    IN  IF city_input # None THEN TagGet(city_input, "value", "") ELSE ""

\* variant: each coordinate is filled from its own input, not as a pair
CoordinatesOfEach(soup) ==
    LET lat_input == find(soup, "input", "class", "pollen-lat")
        lng_input == find(soup, "input", "class", "pollen-lng")
    IN  [latitude  |-> IF lat_input # None THEN TagGet(lat_input, "value", "") ELSE "",
         longitude |-> IF lng_input # None THEN TagGet(lng_input, "value", "") ELSE ""]

\* data["coordinates"]
CoordinatesOf(soup) ==
    LET lat_input == find(soup, "input", "class", "pollen-lat")
        lng_input == find(soup, "input", "class", "pollen-lng")
    IN  IF lat_input # None /\ lng_input # None
        THEN [latitude  |-> TagGet(lat_input, "value", ""),
              longitude |-> TagGet(lng_input, "value", "")]
        ELSE [latitude |-> "", longitude |-> ""]

parse_html_response(soup) ==
    LET days == ForecastLoop(find_all(soup, "button", "class", "day-link"),
                             EmptyDict, EmptyList)
        breakdown == BreakdownLoop(find_all(soup, "li", "class", "diagram-container"),
                                   EmptyDict)
    IN  IF days.raised # NoException THEN days
        ELSE IF breakdown.raised # NoException THEN breakdown
        ELSE Ok([location           |-> LocationOf(soup),
                 coordinates        |-> CoordinatesOf(soup),
                 current_day        |-> days.value.current_day,
                 forecast           |-> days.value.forecast,
                 detailed_breakdown |-> breakdown.value])

-----------------------------------------------------------------------------
(* get_health_advice *)

\* the truth value of a value that is None or a dict
Truthy(v) == v # None /\ v # EmptyDict

\* str.lower() on the level strings of the model
LowerTable ==
    ("" :> "") @@
    ("Low" :> "low") @@ ("low" :> "low") @@ ("LOW" :> "low") @@
    ("Moderate" :> "moderate") @@ ("moderate" :> "moderate") @@
    ("MODERATE" :> "moderate") @@
    ("High" :> "high") @@ ("high" :> "high") @@ ("HIGH" :> "high") @@
    ("Very High" :> "very high") @@ ("very high" :> "very high") @@
    ("VERY HIGH" :> "very high") @@
    ("Extreme" :> "extreme") @@ ("extreme" :> "extreme")
LevelStrings == DOMAIN LowerTable

\* variant: the level is compared as written, without lower()
LowerIdentity(level) ==
    IF level = NoneStr THEN Raise(AttributeError) ELSE Ok(level)

\* level.lower(): an AttributeError when the level is None
Lower(level) ==
    IF level = NoneStr THEN Raise(AttributeError) ELSE Ok(LowerTable[level])

\* category.get("level", ""): an AttributeError when the category is None
GetLevel(category) ==
    IF category = None THEN Raise(AttributeError)
    ELSE Ok(DictGet(category, "level", ""))

\* the expression  category.get("level", "").lower()
LevelOf(category) ==
    LET level == GetLevel(category)
    IN  IF level.raised # NoException THEN level ELSE Lower(level.value)

CategoryNames == <<"grass", "trees", "weeds">>

\* variant: two independent ifs, the second also taking "very high"
RECURSIVE ClassifyLoopBoth(_, _, _, _)
ClassifyLoopBoth(current, i, high_levels, moderate_levels) ==
    IF i > Len(CategoryNames)
    THEN Ok([high_levels |-> high_levels, moderate_levels |-> moderate_levels])
    ELSE LET category_name == CategoryNames[i]
             level == LevelOf(DictGet(current, category_name, EmptyDict))
         IN  IF level.raised # NoException THEN level
             ELSE ClassifyLoopBoth(current, i + 1,
                      IF level.value \in {"high", "very high"}
                      THEN Append(high_levels, category_name) ELSE high_levels,
                      IF level.value \in {"moderate", "very high"}
                      THEN Append(moderate_levels, category_name)
                      ELSE moderate_levels)

\* the loop over the three (category_name, category) pairs, from index i on
RECURSIVE ClassifyLoop(_, _, _, _)
ClassifyLoop(current, i, high_levels, moderate_levels) ==
    IF i > Len(CategoryNames)
    THEN Ok([high_levels |-> high_levels, moderate_levels |-> moderate_levels])
    ELSE LET category_name == CategoryNames[i]
             level == LevelOf(DictGet(current, category_name, EmptyDict))
         IN  IF level.raised # NoException THEN level
             ELSE IF level.value \in {"high", "very high"}
             THEN ClassifyLoop(current, i + 1,
                               Append(high_levels, category_name), moderate_levels)
             ELSE IF level.value = "moderate"
             THEN ClassifyLoop(current, i + 1,
                               high_levels, Append(moderate_levels, category_name))
             ELSE ClassifyLoop(current, i + 1, high_levels, moderate_levels)

\* sep.join(names)
RECURSIVE Join(_, _)
Join(names, sep) ==
    IF names = <<>> THEN ""
    ELSE IF Len(names) = 1 THEN names[1]
    ELSE names[1] \o sep \o Join(Tail(names), sep)

\* str.title() on the joined category names
TitleTable ==
    ("grass" :> "Grass") @@ ("trees" :> "Trees") @@ ("weeds" :> "Weeds") @@
    ("grass, trees" :> "Grass, Trees") @@ ("grass, weeds" :> "Grass, Weeds") @@
    ("trees, weeds" :> "Trees, Weeds") @@
    ("grass, trees, weeds" :> "Grass, Trees, Weeds")
Title(s) == TitleTable[s]

HighHeadline(high_levels) ==
    "HIGH ALERT: " \o Title(Join(high_levels, ", ")) \o " pollen levels are high"
ModerateHeadline(moderate_levels) ==
    "MODERATE: " \o Title(Join(moderate_levels, ", ")) \o " pollen levels are moderate"

HighTips ==
    <<"Stay indoors during peak hours (5-10 AM and dusk)",
      "Keep windows closed",
      "Consider antihistamines",
      "Wear wraparound sunglasses outdoors">>
ModerateTips ==
    <<"Monitor symptoms closely", "Consider limiting outdoor activities">>
LowLines ==
    <<"GOOD NEWS: All pollen levels are currently low",
      "Generally safe for outdoor activities">>
GeneralTipsShort ==
    <<"Check forecast daily",
      "Shower after being outdoors",
      "Use HEPA air filters">>
GeneralTips ==
    <<"Check forecast daily",
      "Shower after being outdoors",
      "Dry clothes indoors",
      "Use HEPA air filters">>

UnknownReport ==
    [advice          |-> <<"Unable to provide advice - no data available">>,
     alert_level     |-> "unknown",
     high_levels     |-> EmptyList,
     moderate_levels |-> EmptyList]

\* variant: current_day is tested with  is None  instead of its truth value
NoCurrentDayIsNone(d) == ~Truthy(d) \/ DictGet(d, "current_day", None) = None

\* the test  not data or not data.get("current_day")
NoCurrentDay(d) == ~Truthy(d) \/ ~Truthy(DictGet(d, "current_day", None))

\* variant: the moderate branch is tested before the high branch
TierOfModerateFirst(high_levels, moderate_levels) ==
    IF moderate_levels # EmptyList
    THEN [alert_level |-> "moderate",
          advice |-> <<ModerateHeadline(moderate_levels)>> \o ModerateTips]
    ELSE IF high_levels # EmptyList
    THEN [alert_level |-> "high",
          advice |-> <<HighHeadline(high_levels)>> \o HighTips]
    ELSE [alert_level |-> "low", advice |-> LowLines]

\* variant: two independent ifs, so the moderate block follows the high block
TierOfBothBlocks(high_levels, moderate_levels) ==
    LET high == IF high_levels # EmptyList
                THEN <<HighHeadline(high_levels)>> \o HighTips ELSE <<>>
        moderate == IF moderate_levels # EmptyList
                    THEN <<ModerateHeadline(moderate_levels)>> \o ModerateTips
                    ELSE <<>>
    IN  IF high_levels # EmptyList
        THEN [alert_level |-> "high", advice |-> high \o moderate]
        ELSE IF moderate_levels # EmptyList
        THEN [alert_level |-> "moderate", advice |-> moderate]
        ELSE [alert_level |-> "low", advice |-> LowLines]

\* the if / elif / else that picks alert_level and the tier block of the advice
TierOf(high_levels, moderate_levels) ==
    IF high_levels # EmptyList
    THEN [alert_level |-> "high",
          advice |-> <<HighHeadline(high_levels)>> \o HighTips]
    ELSE IF moderate_levels # EmptyList
    THEN [alert_level |-> "moderate",
          advice |-> <<ModerateHeadline(moderate_levels)>> \o ModerateTips]
    ELSE [alert_level |-> "low", advice |-> LowLines]

get_health_advice(d) ==
    IF NoCurrentDay(d) THEN Ok(UnknownReport)
    ELSE LET current == d["current_day"]
             levels  == ClassifyLoop(current, 1, EmptyList, EmptyList)
         IN  IF levels.raised # NoException THEN levels
             ELSE LET tier == TierOf(levels.value.high_levels,
                                     levels.value.moderate_levels)
                  IN  Ok([advice          |-> tier.advice \o GeneralTips,
                          alert_level     |-> tier.alert_level,
                          high_levels     |-> levels.value.high_levels,
                          moderate_levels |-> levels.value.moderate_levels])

-----------------------------------------------------------------------------
(* PollenTracker.get_health_advice of the single-file program *)

\* the loop over the three (category_name, category) pairs, from index i on
RECURSIVE LegacyClassifyLoop(_, _, _, _)
LegacyClassifyLoop(current, i, high_levels, moderate_levels) ==
    IF i > 3
    THEN Ok([high_levels |-> high_levels, moderate_levels |-> moderate_levels])
    ELSE LET category_name == <<"grass", "trees", "weeds">>[i]
             category == DictGet(current, category_name, EmptyDict)
             level == IF category = None THEN Raise(AttributeError)
                      ELSE Lower(DictGet(category, "level", ""))
         IN  IF level.raised # NoException THEN level
             ELSE IF level.value \in {"high", "very high"}
             THEN LegacyClassifyLoop(current, i + 1,
                                     Append(high_levels, category_name), moderate_levels)
             ELSE IF level.value = "moderate"
             THEN LegacyClassifyLoop(current, i + 1,
                                     high_levels, Append(moderate_levels, category_name))
             ELSE LegacyClassifyLoop(current, i + 1, high_levels, moderate_levels)

\* the if / elif / else on high_levels and moderate_levels
LegacyTierOf(high_levels, moderate_levels) ==
    IF high_levels # EmptyList
    THEN [alert_level |-> "high",
          advice |-> <<"HIGH ALERT: " \o Title(Join(high_levels, ", "))
                           \o " pollen levels are high",
                       "Stay indoors during peak hours (5-10 AM and dusk)",
                       "Keep windows closed",
                       "Consider antihistamines",
                       "Wear wraparound sunglasses outdoors">>]
    ELSE IF moderate_levels # EmptyList
    THEN [alert_level |-> "moderate",
          advice |-> <<"MODERATE: " \o Title(Join(moderate_levels, ", "))
                           \o " pollen levels are moderate",
                       "Monitor symptoms closely",
                       "Consider limiting outdoor activities">>]
    ELSE [alert_level |-> "low",
          advice |-> <<"GOOD NEWS: All pollen levels are currently low",
                       "Generally safe for outdoor activities">>]

\* variant: the general advice without the line on drying clothes
LegacyGeneralTipsShort ==
    <<"Check forecast daily",
      "Shower after being outdoors",
      "Use HEPA air filters">>

\* the general advice appended last
LegacyGeneralTips ==
    <<"Check forecast daily",
      "Shower after being outdoors",
      "Dry clothes indoors",
      "Use HEPA air filters">>

legacy_get_health_advice(d) ==
    IF ~Truthy(d) \/ ~Truthy(DictGet(d, "current_day", None))
    THEN Ok([advice          |-> <<"Unable to provide advice - no data available">>,
             alert_level     |-> "unknown",
             high_levels     |-> EmptyList,
             moderate_levels |-> EmptyList])
    ELSE LET levels == LegacyClassifyLoop(d["current_day"], 1, EmptyList, EmptyList)
         IN  IF levels.raised # NoException THEN levels
             ELSE LET tier == LegacyTierOf(levels.value.high_levels,
                                           levels.value.moderate_levels)
                  IN  Ok([advice          |-> tier.advice \o LegacyGeneralTips,
                          alert_level     |-> tier.alert_level,
                          high_levels     |-> levels.value.high_levels,
                          moderate_levels |-> levels.value.moderate_levels])

-----------------------------------------------------------------------------
(* Inputs *)

MaxElements == 3

Leaf(name, attrs) == Tag(name, attrs, "", <<>>)
Span(cls, text) == Tag("span", [class |-> <<cls>>], text, <<>>)
Para(cls, text) == Tag("p", [class |-> <<cls>>], text, <<>>)

CityInputs ==
    {Leaf("input", [id |-> "cityName", value |-> "London"]),
     Leaf("input", [id |-> "cityName"])}

CoordinateInputs ==
    {Leaf("input", [class |-> <<"pollen-lat">>, value |-> "51.5074"]),
     Leaf("input", [class |-> <<"pollen-lat">>]),
     Leaf("input", [class |-> <<"pollen-lng">>, value |-> "-0.1278"]),
     Leaf("input", [class |-> <<"pollen-lng">>])}

FullDayAttrs(grass, trees, weeds) ==
    ("data-grass" :> grass) @@ ("data-grass-count" :> "4") @@
    ("data-grass-detail" :> "Timothy,42,Moderate|Rye,0,Low") @@
    ("data-trees" :> trees) @@ ("data-trees-count" :> "3") @@
    ("data-tree-detail" :> "Oak,12,Low") @@
    ("data-weeds" :> weeds) @@ ("data-weeds-count" :> "1") @@
    ("data-weed-detail" :> "Nettle,0,Low")

DayButtons ==
    {Tag("button",
         [class |-> <<"day-link", "active">>] @@ FullDayAttrs("High", "Moderate", "Low"),
         "", <<Span("day-name", " Mon "), Span("day-number", " 15")>>),
     Tag("button",
         [class |-> <<"day-link", "active">>] @@
             ("data-grass" :> "Low") @@ ("data-trees" :> "Very High"),
         "", <<Span("day-name", "Tue")>>),
     Tag("button",
         [class |-> <<"day-link">>] @@ FullDayAttrs("Moderate", "Low", ""),
         "", <<Span("day-number", "17"), Span("day-name", "Wed")>>),
     Tag("button", [class |-> <<"day-link">>], "", <<>>)}

DiagramContainers ==
    {Tag("li", [class |-> <<"diagram-container">>] @@ ("data-details" :> "grass"),
         "", <<Para("level-text", "High"), Para("ppm-level", "50-100 ppm")>>),
     Tag("li", [class |-> <<"diagram-container">>] @@ ("data-details" :> "grass"),
         "", <<Para("level-text", " Low ")>>),
     Tag("li", [class |-> <<"diagram-container">>] @@ ("data-details" :> "trees"),
         "", <<Para("ppm-level", "0-20 ppm ")>>),
     Tag("li", [class |-> <<"diagram-container">>] @@ ("data-details" :> ""),
         "", <<Para("level-text", "High"), Para("ppm-level", "50-100 ppm")>>),
     Tag("li", [class |-> <<"diagram-container">>],
         "", <<Para("level-text", "High")>>)}

\* elements the extractor does not recognise, one of them wrapping recognised ones
OtherElements ==
    {Tag("div", [class |-> <<"wrapper">>], "",
         <<Leaf("input", [id |-> "cityName", value |-> "Leeds"]),
           Leaf("input", [class |-> <<"pollen-lng">>, value |-> "-1.5491"])>>),
     Tag("button", [class |-> <<"active">>] @@ ("data-grass" :> "High"),
         "", <<Span("day-name", "Mon")>>),
     Leaf("input", [name |-> "q", value |-> "London"]),
     Tag("li", [class |-> <<"diagram">>] @@ ("data-details" :> "grass"),
         "", <<Para("level-text", "High")>>)}

Elements ==
    CityInputs \cup CoordinateInputs \cup DayButtons \cup DiagramContainers
        \cup OtherElements

Markups == UNION {[1..n -> Elements] : n \in 0..MaxElements}

\* the category entries get_health_advice may be handed: absent, None, without
\* a level, with a level string, with a None level
CategoryChoices ==
    {"absent", "none", "empty"} \cup LevelStrings \cup {NoneStr}

CategoryEntry(choice) ==
    IF choice = "none" THEN None
    ELSE IF choice = "empty" THEN EmptyDict
    ELSE [level |-> choice]

CurrentDayOf(g, t, w) ==
    LET present == {n \in {"grass", "trees", "weeds"} :
                        CASE n = "grass" -> g # "absent"
                          [] n = "trees" -> t # "absent"
                          [] n = "weeds" -> w # "absent"}
    IN  [n \in present \cup {"day_name"} |->
            CASE n = "grass" -> CategoryEntry(g)
              [] n = "trees" -> CategoryEntry(t)
              [] n = "weeds" -> CategoryEntry(w)
              [] n = "day_name" -> "Mon"]

AdviceInputs ==
    {None, EmptyDict, [location |-> "London"],
     [current_day |-> None], [current_day |-> EmptyDict]}
    \cup {[current_day |-> CurrentDayOf(g, t, w)] :
              g \in CategoryChoices, t \in CategoryChoices, w \in CategoryChoices}

\* the callers that may be inside parse_html_response or get_health_advice at
\* the same time, e.g. the request handlers sharing the module-level tracker
Callers == {"first", "second"}

\* a caller that is in no invocation
Idle == [op |-> "none", line |-> "done"]

-----------------------------------------------------------------------------
(* The calls *)

Init ==
    /\ pc = "idle"
    /\ html_content = <<>>
    /\ data = None
    /\ advice_arg = None
    /\ report = None
    /\ raised = NoException
    /\ args = None
    /\ last_data = None
    /\ request = [front |-> "none"]
    /\ fetch = None
    /\ response = None
    /\ fetched = None
    /\ queried = None
    /\ calling = [c \in Callers |-> Idle]
    /\ frames = [f \in Callers |-> [data |-> None, levels |-> None]]
    /\ given = None
    /\ yielded = None

\* a caller hands markup to PollenTracker.parse_html_response
ParseHtmlResponse ==
    /\ pc = "idle"
    /\ \E markup \in Markups :
         LET result == parse_html_response(markup)
         IN  /\ html_content' = markup
             /\ data' = result.value
             /\ raised' = result.raised
    /\ pc' = "parsed"
    /\ UNCHANGED <<advice_arg, report>>
    /\ UNCHANGED <<frontVars, concVars, pureVars>>

\* a caller hands any dict or None to get_health_advice
GetHealthAdvice ==
    /\ pc = "idle"
    /\ \E d \in AdviceInputs :
         LET result == get_health_advice(d)
         IN  /\ advice_arg' = d
             /\ report' = result.value
             /\ raised' = result.raised
    /\ pc' = "advised"
    /\ UNCHANGED <<html_content, data>>
    /\ UNCHANGED <<frontVars, concVars, pureVars>>

\* a front end hands the record it just extracted to get_health_advice
AdviseExtracted ==
    /\ pc = "parsed"
    /\ raised = NoException
    /\ LET result == get_health_advice(data)
       IN  /\ advice_arg' = data
           /\ report' = result.value
           /\ raised' = result.raised
    /\ pc' = "advised"
    /\ UNCHANGED <<html_content, data>>
    /\ UNCHANGED <<frontVars, concVars, pureVars>>

\* the front end has produced its response; record and report are dropped
Discard ==
    /\ pc \in {"parsed", "advised"}
    /\ pc' = "idle"
    /\ html_content' = <<>>
    /\ data' = None
    /\ advice_arg' = None
    /\ report' = None
    /\ raised' = NoException
    /\ UNCHANGED <<frontVars, concVars, pureVars>>

Next == ParseHtmlResponse \/ GetHealthAdvice \/ AdviseExtracted \/ Discard

Spec == Init /\ [][Next]_vars

-----------------------------------------------------------------------------
(* What the markup contains, read off the element tree *)

HasClass(t, cls) == "class" \in DOMAIN t.attrs /\ \E i \in DOMAIN t.attrs["class"] : t.attrs["class"][i] = cls

AllTags(markup) == Descendants(markup)

CityNameInputs(markup) ==
    SelectSeq(AllTags(markup),
              LAMBDA t : t.name = "input" /\ "id" \in DOMAIN t.attrs
                         /\ t.attrs["id"] = "cityName")
LatitudeInputs(markup) ==
    SelectSeq(AllTags(markup), LAMBDA t : t.name = "input" /\ HasClass(t, "pollen-lat"))
LongitudeInputs(markup) ==
    SelectSeq(AllTags(markup), LAMBDA t : t.name = "input" /\ HasClass(t, "pollen-lng"))
DayControls(markup) ==
    SelectSeq(AllTags(markup), LAMBDA t : t.name = "button" /\ HasClass(t, "day-link"))
Containers(markup) ==
    SelectSeq(AllTags(markup), LAMBDA t : t.name = "li" /\ HasClass(t, "diagram-container"))

\* the value of an attribute, "" when the attribute is absent
AttrOrEmpty(t, key) == IF key \in DOMAIN t.attrs THEN t.attrs[key] ELSE ""

RecordFields == {"location", "coordinates", "current_day", "forecast", "detailed_breakdown"}

Extracted == pc = "parsed"

-----------------------------------------------------------------------------
(* Claims *)

\* C1: parse_html_response never raises: for every markup it returns a record
\* with exactly the five fields, and a field whose elements are all missing
\* from the markup has its default ("" / empty pair / {} / []).
C1_ExtractNeverFails ==
    Extracted =>
        /\ raised = NoException
        /\ DOMAIN data = RecordFields
        /\ DOMAIN data.coordinates = {"latitude", "longitude"}
        /\ CityNameInputs(html_content) = <<>> => data.location = ""
        /\ (LatitudeInputs(html_content) = <<>>
                /\ LongitudeInputs(html_content) = <<>>)
              => data.coordinates = [latitude |-> "", longitude |-> ""]
        /\ DayControls(html_content) = <<>>
              => data.current_day = EmptyDict /\ data.forecast = EmptyList
        /\ Containers(html_content) = <<>> => data.detailed_breakdown = EmptyDict

\* C1 witness: markup with a day control that has no nested spans and a diagram
\* container that has no ppm element was extracted without an exception
C1_Witness ==
    /\ Extracted
    /\ raised = NoException
    /\ \E i \in DOMAIN html_content :
          /\ html_content[i].name = "button"
          /\ HasClass(html_content[i], "day-link")
          /\ html_content[i].contents = <<>>
    /\ \E i \in DOMAIN html_content :
          /\ html_content[i].name = "li"
          /\ AttrOrEmpty(html_content[i], "data-details") = "trees"
    /\ Len(data.forecast) > 0
    /\ "trees" \in DOMAIN data.detailed_breakdown

\* C2 as stated: in every extracted record latitude and longitude are both
\* non-empty or both empty.
C2_CoordinatesBothOrNeither ==
    (Extracted /\ raised = NoException) =>
        (data.coordinates.latitude = "" <=> data.coordinates.longitude = "")

\* C2 amended: the pair is assigned as a whole: when either coordinate input is
\* missing from the markup both coordinates are empty, and when both are there
\* each coordinate is the value attribute of the first such input, "" when that
\* input has no value attribute; so a coordinate is non-empty only when both
\* inputs are present.
C2_CoordinatesSetAsPair ==
    (Extracted /\ raised = NoException) =>
        LET lats == LatitudeInputs(html_content)
            lngs == LongitudeInputs(html_content)
        IN  /\ (lats = <<>> \/ lngs = <<>>)
                  => data.coordinates = [latitude |-> "", longitude |-> ""]
            /\ (lats # <<>> /\ lngs # <<>>)
                  => data.coordinates =
                         [latitude  |-> AttrOrEmpty(lats[1], "value"),
                          longitude |-> AttrOrEmpty(lngs[1], "value")]

\* C2 witness: markup with a latitude input carrying a value and no longitude
\* input was extracted, and both coordinates are empty
C2_Witness ==
    /\ Extracted
    /\ raised = NoException
    /\ LongitudeInputs(html_content) = <<>>
    /\ LatitudeInputs(html_content) # <<>>
    /\ AttrOrEmpty(LatitudeInputs(html_content)[1], "value") # ""
    /\ data.coordinates = [latitude |-> "", longitude |-> ""]

\* C3: with no active-marked day control current_day is empty; with one or more
\* it is the entry built from the last active-marked one, and extraction does
\* not raise when several are marked.
C3_CurrentDayLastActive ==
    Extracted =>
        LET controls == DayControls(html_content)
            active   == {i \in DOMAIN controls : HasClass(controls[i], "active")}
        IN  /\ raised = NoException
            /\ active = {} => data.current_day = EmptyDict
            /\ active # {} =>
                  LET last == CHOOSE i \in active : \A j \in active : j <= i
                  IN  /\ data.current_day = DayData(controls[last]).value
                      /\ data.current_day = data.forecast[last]

\* C3 witness: two active-marked day controls with different entries were
\* extracted and current_day is the entry of the second
C3_Witness ==
    /\ Extracted
    /\ raised = NoException
    /\ LET controls == DayControls(html_content)
       IN  /\ Len(controls) = 3
           /\ HasClass(controls[1], "active")
           /\ HasClass(controls[2], "active")
           /\ ~HasClass(controls[3], "active")
           /\ data.forecast[1] # data.forecast[2]
           /\ data.current_day = data.forecast[2]

-----------------------------------------------------------------------------
(* What get_health_advice was handed, read off its argument *)

Advised == pc = "advised"

ReportFields == {"advice", "alert_level", "high_levels", "moderate_levels"}

\* the argument is absent or empty, or its current_day is
RecordOrCurrentDayAbsent(d) ==
    \/ d = None
    \/ d = EmptyDict
    \/ "current_day" \notin DOMAIN d
    \/ d["current_day"] = None
    \/ d["current_day"] = EmptyDict

\* the level string stored for a category, "" when the category or its level
\* is missing (defined for arguments whose categories and levels are not None)
SourceLevel(d, name) ==
    LET current == d["current_day"]
    IN  IF name \notin DOMAIN current THEN ""
        ELSE IF "level" \notin DOMAIN current[name] THEN ""
        ELSE current[name]["level"]

HighWords == {"high", "High", "HIGH", "very high", "Very High", "VERY HIGH"}
ModerateWords == {"moderate", "Moderate", "MODERATE"}

\* the categories whose level is high / moderate in any letter case, in
\* grass, trees, weeds order
HighCategories(d) ==
    SelectSeq(<<"grass", "trees", "weeds">>, LAMBDA n : SourceLevel(d, n) \in HighWords)
ModerateCategories(d) ==
    SelectSeq(<<"grass", "trees", "weeds">>,
              LAMBDA n : SourceLevel(d, n) \in ModerateWords)

\* the argument with every level string put in lower case
LowerCased(d) ==
    LET current == d["current_day"]
    IN  [d EXCEPT !["current_day"] =
            [n \in DOMAIN current |->
                IF n \in {"grass", "trees", "weeds"} /\ "level" \in DOMAIN current[n]
                THEN [current[n] EXCEPT !["level"] = LowerTable[@]]
                ELSE current[n]]]

FixedGeneralTips ==
    <<"Check forecast daily", "Shower after being outdoors",
      "Dry clothes indoors", "Use HEPA air filters">>
FixedHighTips ==
    <<"Stay indoors during peak hours (5-10 AM and dusk)", "Keep windows closed",
      "Consider antihistamines", "Wear wraparound sunglasses outdoors">>
FixedModerateTips ==
    <<"Monitor symptoms closely", "Consider limiting outdoor activities">>
FixedLowLines ==
    <<"GOOD NEWS: All pollen levels are currently low",
      "Generally safe for outdoor activities">>

TitledNames(names) ==
    CASE names = <<"grass">> -> "Grass"
      [] names = <<"trees">> -> "Trees"
      [] names = <<"weeds">> -> "Weeds"
      [] names = <<"grass", "trees">> -> "Grass, Trees"
      [] names = <<"grass", "weeds">> -> "Grass, Weeds"
      [] names = <<"trees", "weeds">> -> "Trees, Weeds"
      [] names = <<"grass", "trees", "weeds">> -> "Grass, Trees, Weeds"

NameLists ==
    {<<"grass">>, <<"trees">>, <<"weeds">>, <<"grass", "trees">>,
     <<"grass", "weeds">>, <<"trees", "weeds">>, <<"grass", "trees", "weeds">>}

ModerateHeadlines ==
    {"MODERATE: " \o TitledNames(names) \o " pollen levels are moderate" :
         names \in NameLists}

-----------------------------------------------------------------------------

\* C4 as stated: get_health_advice never raises: for every argument it returns
\* a report with the four fields and alert_level in {unknown, low, moderate, high}.
C4_AdviseNeverThrows ==
    Advised =>
        /\ raised = NoException
        /\ DOMAIN report = ReportFields
        /\ report.alert_level \in {"unknown", "low", "moderate", "high"}

\* C5: for every argument with a non-empty current_day that get_health_advice
\* returns a report for, alert_level is high iff high_levels is non-empty,
\* moderate iff high_levels is empty and moderate_levels is not, low iff both
\* are empty; when no level is high, very high or moderate (in any letter case)
\* the report is low with both lists empty.
C5_TierSelection ==
    (Advised /\ raised = NoException /\ ~RecordOrCurrentDayAbsent(advice_arg)) =>
        /\ report.alert_level = "high" <=> report.high_levels # <<>>
        /\ report.alert_level = "moderate"
              <=> (report.high_levels = <<>> /\ report.moderate_levels # <<>>)
        /\ report.alert_level = "low"
              <=> (report.high_levels = <<>> /\ report.moderate_levels = <<>>)
        /\ (\A n \in {"grass", "trees", "weeds"} :
                SourceLevel(advice_arg, n) \notin HighWords \cup ModerateWords)
              => /\ report.alert_level = "low"
                 /\ report.high_levels = <<>>
                 /\ report.moderate_levels = <<>>

\* C5 witness: a current_day with an unrecognised level ("Extreme"), a missing
\* level and a low level got the low report
C5_Witness ==
    /\ Advised
    /\ raised = NoException
    /\ ~RecordOrCurrentDayAbsent(advice_arg)
    /\ SourceLevel(advice_arg, "grass") = "Extreme"
    /\ "trees" \notin DOMAIN advice_arg["current_day"]
    /\ SourceLevel(advice_arg, "weeds") = "Low"
    /\ report.alert_level = "low"

\* C6: a category is in high_levels iff its level is "high" or "very high" in
\* any letter case, in moderate_levels iff its level is "moderate" in any
\* letter case, in neither otherwise; and the report equals the report for the
\* same argument with every level in lower case.
C6_CaseInsensitiveClassification ==
    (Advised /\ raised = NoException /\ ~RecordOrCurrentDayAbsent(advice_arg)) =>
        /\ \A n \in {"grass", "trees", "weeds"} :
              /\ (\E i \in DOMAIN report.high_levels : report.high_levels[i] = n)
                    <=> SourceLevel(advice_arg, n) \in HighWords
              /\ (\E i \in DOMAIN report.moderate_levels :
                        report.moderate_levels[i] = n)
                    <=> SourceLevel(advice_arg, n) \in ModerateWords
        /\ report = get_health_advice(LowerCased(advice_arg)).value

\* C6 witness: levels written "VERY HIGH", "High" and "MODERATE" were classified
C6_Witness ==
    /\ Advised
    /\ raised = NoException
    /\ ~RecordOrCurrentDayAbsent(advice_arg)
    /\ SourceLevel(advice_arg, "grass") = "VERY HIGH"
    /\ SourceLevel(advice_arg, "trees") = "High"
    /\ SourceLevel(advice_arg, "weeds") = "MODERATE"
    /\ report.high_levels = <<"grass", "trees">>
    /\ report.moderate_levels = <<"weeds">>

\* C7: for every argument with a non-empty current_day that a report is
\* returned for, the advice ends with the four general tips in fixed order,
\* preceded by the tier block: a headline and the four high tips (9 lines), a
\* headline and the two moderate tips (7 lines), or the two low lines (6 lines).
C7_AdviceStructure ==
    (Advised /\ raised = NoException /\ ~RecordOrCurrentDayAbsent(advice_arg)) =>
        LET advice == report.advice
            n      == Len(advice)
            fixed  == Range(FixedGeneralTips) \cup Range(FixedHighTips)
                          \cup Range(FixedModerateTips) \cup Range(FixedLowLines)
        IN  /\ n >= 4
            /\ SubSeq(advice, n - 3, n) = FixedGeneralTips
            /\ report.alert_level = "high" =>
                  /\ n = 9
                  /\ advice[1] \notin fixed
                  /\ SubSeq(advice, 2, 5) = FixedHighTips
            /\ report.alert_level = "moderate" =>
                  /\ n = 7
                  /\ advice[1] \notin fixed
                  /\ SubSeq(advice, 2, 3) = FixedModerateTips
            /\ report.alert_level = "low" =>
                  /\ n = 6
                  /\ SubSeq(advice, 1, 2) = FixedLowLines
            /\ report.alert_level \in {"high", "moderate", "low"}

\* C7 witness: a moderate report of seven lines was returned
C7_Witness ==
    /\ Advised
    /\ raised = NoException
    /\ ~RecordOrCurrentDayAbsent(advice_arg)
    /\ report.alert_level = "moderate"
    /\ Len(report.advice) = 7
    /\ report.advice[7] = "Use HEPA air filters"

\* C8: whenever high_levels is non-empty the first advice line is the HIGH
\* ALERT headline naming exactly the high categories, title-cased and
\* comma-joined in grass, trees, weeds order; no line is a MODERATE headline or
\* a moderate tip; and moderate_levels still lists the moderate categories.
C8_OneHeadline ==
    (Advised /\ raised = NoException /\ report.high_levels # <<>>) =>
        /\ report.high_levels = HighCategories(advice_arg)
        /\ report.moderate_levels = ModerateCategories(advice_arg)
        /\ report.advice[1] =
              "HIGH ALERT: " \o TitledNames(HighCategories(advice_arg))
                             \o " pollen levels are high"
        /\ \A i \in DOMAIN report.advice :
              /\ report.advice[i] \notin ModerateHeadlines
              /\ report.advice[i] \notin Range(FixedModerateTips)
              /\ i > 1 => report.advice[i] \in
                             Range(FixedHighTips) \cup Range(FixedGeneralTips)

\* C8 witness: a report with two high categories and one moderate category
C8_Witness ==
    /\ Advised
    /\ raised = NoException
    /\ report.high_levels = <<"grass", "weeds">>
    /\ report.moderate_levels = <<"trees">>
    /\ report.advice[1] = "HIGH ALERT: Grass, Weeds pollen levels are high"

NestedTextOrEmpty(control, cls) ==
    LET spans == SelectSeq(Descendants(control.contents),
                           LAMBDA t : t.name = "span" /\ HasClass(t, cls))
    IN  IF spans = <<>> THEN "" ELSE StripTable[spans[1].text]

\* C10: forecast has one entry per day control of the markup, in document
\* order, whether or not a control is active; in each entry day_name and
\* day_number are the (trimmed) text of the nested day-name and day-number
\* elements and level, count and detail of grass, trees and weeds are the
\* values of the control's data attributes, each "" when the nested element
\* or the attribute is absent.
C10_ForecastConstruction ==
    (Extracted /\ raised = NoException) =>
        LET controls == DayControls(html_content)
        IN  /\ Len(data.forecast) = Len(controls)
            /\ \A i \in DOMAIN controls :
                  LET c == controls[i]
                      e == data.forecast[i]
                  IN  /\ e.day_name = NestedTextOrEmpty(c, "day-name")
                      /\ e.day_number = NestedTextOrEmpty(c, "day-number")
                      /\ e.grass = [level  |-> AttrOrEmpty(c, "data-grass"),
                                    count  |-> AttrOrEmpty(c, "data-grass-count"),
                                    detail |-> AttrOrEmpty(c, "data-grass-detail")]
                      /\ e.trees = [level  |-> AttrOrEmpty(c, "data-trees"),
                                    count  |-> AttrOrEmpty(c, "data-trees-count"),
                                    detail |-> AttrOrEmpty(c, "data-tree-detail")]
                      /\ e.weeds = [level  |-> AttrOrEmpty(c, "data-weeds"),
                                    count  |-> AttrOrEmpty(c, "data-weeds-count"),
                                    detail |-> AttrOrEmpty(c, "data-weed-detail")]

\* C10 witness: three day controls, none of them active, the second with no
\* nested element and no data attribute, gave a forecast of three entries
C10_Witness ==
    /\ Extracted
    /\ raised = NoException
    /\ LET controls == DayControls(html_content)
       IN  /\ Len(controls) = 3
           /\ \A i \in DOMAIN controls : ~HasClass(controls[i], "active")
           /\ controls[1] # controls[2]
           /\ controls[2].contents = <<>>
           /\ controls[3] = controls[1]
    /\ Len(data.forecast) = 3
    /\ data.forecast[1].day_name = "Wed"
    /\ data.forecast[2].day_name = ""
    /\ data.forecast[2].grass.level = ""
    /\ data.current_day = EmptyDict

-----------------------------------------------------------------------------

\* the trimmed text of the first nested p of a container with the given class,
\* "" when there is none
NestedParaOrEmpty(container, cls) ==
    LET paras == SelectSeq(Descendants(container.contents),
                           LAMBDA t : t.name = "p" /\ HasClass(t, cls))
    IN  IF paras = <<>> THEN "" ELSE StripTable[paras[1].text]

\* C11: the keys of detailed_breakdown are exactly the non-empty data-details
\* values of the diagram containers of the markup; the entry stored under a key
\* comes from the last container with that key in document order; level and
\* ppm are the trimmed text of the nested level-text and ppm-level elements,
\* "" when the element is absent.
C11_DetailedBreakdown ==
    (Extracted /\ raised = NoException) =>
        LET containers == Containers(html_content)
            keyOf(i)   == AttrOrEmpty(containers[i], "data-details")
        IN  /\ DOMAIN data.detailed_breakdown =
                  {keyOf(i) : i \in DOMAIN containers} \ {""}
            /\ \A k \in DOMAIN data.detailed_breakdown :
                  LET last == CHOOSE i \in DOMAIN containers :
                                  /\ keyOf(i) = k
                                  /\ \A j \in DOMAIN containers :
                                        keyOf(j) = k => j <= i
                  IN  data.detailed_breakdown[k] =
                          [level |-> NestedParaOrEmpty(containers[last], "level-text"),
                           ppm   |-> NestedParaOrEmpty(containers[last], "ppm-level")]

\* C11 witness: two containers with the key grass and different contents, the
\* second without a ppm element, and one container with an empty key
C11_Witness ==
    /\ Extracted
    /\ raised = NoException
    /\ LET containers == Containers(html_content)
       IN  /\ Len(containers) = 3
           /\ AttrOrEmpty(containers[1], "data-details") = "grass"
           /\ NestedParaOrEmpty(containers[1], "ppm-level") = "50-100 ppm"
           /\ AttrOrEmpty(containers[2], "data-details") = "grass"
           /\ NestedParaOrEmpty(containers[2], "ppm-level") = ""
           /\ "data-details" \in DOMAIN containers[3].attrs
           /\ containers[3].attrs["data-details"] = ""
    /\ data.detailed_breakdown = [grass |-> [level |-> "Low", ppm |-> ""]]

\* C12: markup that contains none of the recognised elements (no cityName
\* input, no coordinate input, no day control, no diagram container) is
\* extracted to exactly the default record.
C12_DefaultRecord ==
    (/\ Extracted
     /\ CityNameInputs(html_content) = <<>>
     /\ LatitudeInputs(html_content) = <<>>
     /\ LongitudeInputs(html_content) = <<>>
     /\ DayControls(html_content) = <<>>
     /\ Containers(html_content) = <<>>) =>
        /\ raised = NoException
        /\ data = [location |-> "",
                   coordinates |-> [latitude |-> "", longitude |-> ""],
                   current_day |-> <<>>,
                   forecast |-> <<>>,
                   detailed_breakdown |-> <<>>]

\* C12 witness: markup made of an input, a button and a li that are none of the
\* recognised elements was extracted to a record with an empty location
C12_Witness ==
    /\ Extracted
    /\ raised = NoException
    /\ Len(html_content) = 3
    /\ html_content[1].name = "input"
    /\ html_content[2].name = "button"
    /\ html_content[3].name = "li"
    /\ CityNameInputs(html_content) = <<>>
    /\ LatitudeInputs(html_content) = <<>>
    /\ LongitudeInputs(html_content) = <<>>
    /\ DayControls(html_content) = <<>>
    /\ Containers(html_content) = <<>>
    /\ data.location = ""
    /\ data.forecast = <<>>

\* C13: markup in which exactly one of the two coordinate inputs is present is
\* extracted with both coordinates empty, whatever value that input carries.
C13_OneCoordinateInput ==
    (/\ Extracted
     /\ raised = NoException
     /\ (LatitudeInputs(html_content) = <<>>) # (LongitudeInputs(html_content) = <<>>)) =>
        /\ data.coordinates.latitude = ""
        /\ data.coordinates.longitude = ""

\* C13 witness: markup with a longitude input carrying a value, nested in a
\* wrapper, and no latitude input was extracted
C13_Witness ==
    /\ Extracted
    /\ raised = NoException
    /\ LatitudeInputs(html_content) = <<>>
    /\ LongitudeInputs(html_content) # <<>>
    /\ AttrOrEmpty(LongitudeInputs(html_content)[1], "value") = "-1.5491"
    /\ data.coordinates = [latitude |-> "", longitude |-> ""]

\* C14: in every report returned, high_levels and moderate_levels are
\* subsequences of grass, trees, weeds in that order without duplicates, hold
\* no other name, and are disjoint; a category is in high_levels only if its
\* level is high or very high and in moderate_levels only if it is moderate.
C14_LevelListsWellFormed ==
    (Advised /\ raised = NoException) =>
        LET position(n) == CASE n = "grass" -> 1 [] n = "trees" -> 2
                             [] n = "weeds" -> 3 [] OTHER -> 0
            ordered(list) ==
                /\ \A i \in DOMAIN list : position(list[i]) > 0
                /\ \A i, j \in DOMAIN list :
                      i < j => position(list[i]) < position(list[j])
        IN  /\ ordered(report.high_levels)
            /\ ordered(report.moderate_levels)
            /\ Range(report.high_levels) \cap Range(report.moderate_levels) = {}
            /\ ~RecordOrCurrentDayAbsent(advice_arg) =>
                  /\ \A n \in Range(report.high_levels) :
                        SourceLevel(advice_arg, n) \in HighWords
                  /\ \A n \in Range(report.moderate_levels) :
                        SourceLevel(advice_arg, n) \in ModerateWords

\* C14 witness: a report with trees and weeds high and grass moderate
C14_Witness ==
    /\ Advised
    /\ raised = NoException
    /\ report.high_levels = <<"trees", "weeds">>
    /\ report.moderate_levels = <<"grass">>

-----------------------------------------------------------------------------
(* PollenTracker.get_pollen_data *)

\* The text of the source's response: the character data outside every tag
\* and the element tree of its tags.
ResponseText(chars, tree) == [chars |-> chars, tree |-> tree]
EmptyText == ResponseText("", <<>>)

\* variant: the text is tested as received
TextStripNothing(text) == text

\* response.text.strip()
TextStrip(text) == ResponseText(Strip(text.chars), text.tree)

\* What the network does for one session.post: raises = "post" when post
\* raises, "raise_for_status" when the status check raises, "" otherwise.
NetworkOutcome(raises, text) == [raises |-> raises, text |-> text]

IsRequestException(e) == e \in {"ConnectionError", "HTTPError"}

CallResult(e, v, made) == [raised |-> e, value |-> v, calls |-> made]

get_pollen_data(outcome) ==
    IF outcome.raises = "post"
    THEN CallResult("ConnectionError", None, <<"post">>)
    ELSE IF outcome.raises = "raise_for_status"
    THEN CallResult("HTTPError", None, <<"post", "raise_for_status">>)
    ELSE IF TextStrip(outcome.text) # EmptyText
    THEN LET parsed == parse_html_response(outcome.text.tree)
         IN  CallResult(parsed.raised, parsed.value,
                        <<"post", "raise_for_status", "parse_html_response">>)
    ELSE CallResult(NoException, None, <<"post", "raise_for_status">>)

-----------------------------------------------------------------------------
(* The HTTP API *)

HttpError(status, detail) == [status |-> status, detail |-> detail, body |-> None]
HttpOk(body) == [status |-> 200, detail |-> "", body |-> body]

ErrorDetail(e) == "Error fetching data: " \o e
NotFoundDetail(city) ==
    "No pollen data found for '" \o city
        \o "'. Please check the location and try again."

\* variant: an exception while fetching is answered like missing data
FetchFailureAsNotFound(got, city) ==
    IF got.raised # NoException \/ ~Truthy(got.value)
    THEN HttpError(404, NotFoundDetail(city))
    ELSE None

\* the try / except and the  if not data  that open every pollen endpoint:
\* the error response, None when the endpoint goes on
FetchFailure(got, city) ==
    IF got.raised # NoException
    THEN HttpError(500, ErrorDetail(got.raised))
    ELSE IF ~Truthy(got.value)
    THEN HttpError(404, NotFoundDetail(city))
    ELSE None

PollenLevelFields == {"level", "count", "detail"}
DayForecastFields == {"day_name", "day_number", "grass", "trees", "weeds"}

\* a value validates as the DayForecast model
ValidDayForecast(d) ==
    /\ DayForecastFields \subseteq DOMAIN d
    /\ \A n \in {"grass", "trees", "weeds"} : PollenLevelFields \subseteq DOMAIN d[n]

\* a value validates as the PollenData model
ValidPollenData(d) ==
    /\ RecordFields \subseteq DOMAIN d
    /\ {"latitude", "longitude"} \subseteq DOMAIN d.coordinates
    /\ ValidDayForecast(d.current_day)
    /\ \A i \in DOMAIN d.forecast : ValidDayForecast(d.forecast[i])
    /\ \A k \in DOMAIN d.detailed_breakdown :
          {"level", "ppm"} \subseteq DOMAIN d.detailed_breakdown[k]

\* a return value that does not validate against the declared response_model,
\* or an exception nothing catches, is answered by the framework
InternalServerError == HttpError(500, "Internal Server Error")

\* what an endpoint returns once it has data
EndpointBody(kind, d) ==
    CASE kind = "pollen" ->
           IF ValidPollenData(d) THEN HttpOk(d) ELSE InternalServerError
      [] kind = "current" ->
           HttpOk([location    |-> DictGet(d, "location", None),
                   current_day |-> DictGet(d, "current_day", None),
                   coordinates |-> DictGet(d, "coordinates", None)])
      [] kind = "forecast" ->
           HttpOk([location    |-> DictGet(d, "location", None),
                   forecast    |-> DictGet(d, "forecast", EmptyList),
                   coordinates |-> DictGet(d, "coordinates", None)])
      [] kind = "advice" ->
           LET advice_data == get_health_advice(d)
           IN  IF advice_data.raised # NoException THEN InternalServerError
               ELSE HttpOk(advice_data.value)
      [] kind = "detailed" ->
           HttpOk([location           |-> DictGet(d, "location", None),
                   detailed_breakdown |-> DictGet(d, "detailed_breakdown", EmptyDict),
                   coordinates        |-> DictGet(d, "coordinates", None)])

Endpoint(kind, city, got) ==
    LET failure == FetchFailure(got, city)
    IN  IF failure # None THEN failure ELSE EndpointBody(kind, got.value)

-----------------------------------------------------------------------------
(* PollenCLI.display_detailed_analysis: the detail string                   *)
(*                                                                          *)
(* A detail string is represented by its pieces in order: each separator    *)
(* character "|" or "," is a piece, and so is each maximal run of other     *)
(* characters.                                                              *)

ValueError == "ValueError"

\* the integers spelled by the strings of the model; int() of any other
\* string of the model raises
IntTable ==
    ("0" :> 0) @@ ("7" :> 7) @@ ("12" :> 12) @@ ("42" :> 42) @@ ("-3" :> (0 - 3))

\* int(s)
int(s) == IF s \in DOMAIN IntTable THEN Ok(IntTable[s]) ELSE Raise(ValueError)

RECURSIVE SplitFrom(_, _, _, _)
SplitFrom(pieces, sep, current, parts) ==
    IF pieces = <<>> THEN Append(parts, current)
    ELSE IF Head(pieces) = sep
    THEN SplitFrom(Tail(pieces), sep, <<>>, Append(parts, current))
    ELSE SplitFrom(Tail(pieces), sep, Append(current, Head(pieces)), parts)

\* s.split(sep): the runs of pieces between the separators, empty runs included
Split(pieces, sep) == SplitFrom(pieces, sep, <<>>, <<>>)

\* the string a run without separators spells
TextOf(run) == IF run = <<>> THEN "" ELSE Head(run)

DetailLine(parts) ==
    [name |-> TextOf(parts[1]), ppm |-> TextOf(parts[2]), level |-> TextOf(parts[3])]

\* variant: entries with a PPM of zero are shown as well
RECURSIVE DetailLoopShowZero(_, _)
DetailLoopShowZero(pollen_types, lines) ==
    IF pollen_types = <<>> THEN Ok(lines)
    ELSE LET pollen_type == Head(pollen_types)
             parts == Split(pollen_type, ",")
         IN  IF "," \notin Range(pollen_type) \/ Len(parts) < 3
             THEN DetailLoopShowZero(Tail(pollen_types), lines)
             ELSE LET ppm == int(TextOf(parts[2]))
                  IN  IF ppm.raised # NoException THEN ppm
                      ELSE IF ppm.value >= 0
                      THEN DetailLoopShowZero(Tail(pollen_types),
                                              Append(lines, DetailLine(parts)))
                      ELSE DetailLoopShowZero(Tail(pollen_types), lines)

\* the loop over detail.split("|"): the lines printed, or the exception raised
RECURSIVE DetailLoop(_, _)
DetailLoop(pollen_types, lines) ==
    IF pollen_types = <<>> THEN Ok(lines)
    ELSE LET pollen_type == Head(pollen_types)
             parts == Split(pollen_type, ",")
         IN  IF "," \notin Range(pollen_type) \/ Len(parts) < 3
             THEN DetailLoop(Tail(pollen_types), lines)
             ELSE LET ppm == int(TextOf(parts[2]))
                  IN  IF ppm.raised # NoException THEN ppm
                      ELSE IF ppm.value > 0
                      THEN DetailLoop(Tail(pollen_types),
                                      Append(lines, DetailLine(parts)))
                      ELSE DetailLoop(Tail(pollen_types), lines)

\* what display_detailed_analysis does with one category's detail string
ConsumeDetail(detail) ==
    IF detail = <<>> THEN Ok(<<>>) ELSE DetailLoop(Split(detail, "|"), <<>>)

\* the pieces of the detail strings the pages of the model carry
DetailTable ==
    ("" :> <<>>) @@
    ("Timothy,42,Moderate|Rye,0,Low" :>
        <<"Timothy", ",", "42", ",", "Moderate", "|", "Rye", ",", "0", ",", "Low">>) @@
    ("Oak,12,Low" :> <<"Oak", ",", "12", ",", "Low">>) @@
    ("Nettle,0,Low" :> <<"Nettle", ",", "0", ",", "Low">>) @@
    ("Birch,abc,High" :> <<"Birch", ",", "abc", ",", "High">>)

\* the loop over the three categories of current_day, from index i on
RECURSIVE DetailedCategories(_, _, _)
DetailedCategories(current, i, shown) ==
    IF i > Len(CategoryNames) THEN Ok(shown)
    ELSE LET category_data == DictGet(current, CategoryNames[i], EmptyDict)
             lines == ConsumeDetail(DetailTable[DictGet(category_data, "detail", "")])
         IN  IF lines.raised # NoException THEN lines
             ELSE DetailedCategories(current, i + 1, Append(shown, lines.value))

\* PollenCLI.display_detailed_analysis: the lines shown per category
display_detailed_analysis(d) ==
    IF NoCurrentDay(d) THEN Ok(<<>>)
    ELSE DetailedCategories(d["current_day"], 1, <<>>)

-----------------------------------------------------------------------------
(* The command-line tool *)

Shown(section, d) == [section |-> section, data |-> d]

\* the display_* calls of process_query that follow the current conditions
OptionalDisplays(d, show_forecast, show_detailed, show_advice) ==
    (IF show_forecast THEN <<Shown("forecast", d)>> ELSE <<>>)
        \o (IF show_detailed THEN <<Shown("detailed", d)>> ELSE <<>>)
        \o (IF show_advice THEN <<Shown("advice", d)>> ELSE <<>>)

\* the exception a display raises once it has begun
DisplayRaised(display) ==
    IF display.section = "detailed" THEN display_detailed_analysis(display.data).raised
    ELSE IF display.section = "advice" THEN get_health_advice(display.data).raised
    ELSE NoException

\* the displays made one after the other, up to the first that raises
RECURSIVE RunDisplays(_, _)
RunDisplays(displays, printed) ==
    IF displays = <<>> THEN Ok(printed)
    ELSE IF DisplayRaised(Head(displays)) # NoException
    THEN [raised |-> DisplayRaised(Head(displays)),
          value  |-> Append(printed, Head(displays))]
    ELSE RunDisplays(Tail(displays), Append(printed, Head(displays)))

QueryResult(e, returned, kept, printed) ==
    [raised |-> e, returned |-> returned, last_data |-> kept, printed |-> printed]

\* variant: a query that gets no record clears what was kept
process_queryForgetting(kept, got, show_forecast, show_detailed, show_advice, output_json) ==
    IF got.raised # NoException \/ ~Truthy(got.value)
    THEN QueryResult(NoException, None, None, <<Shown("error", None)>>)
    ELSE QueryResult(NoException, got.value, got.value, <<Shown("current", got.value)>>)

\* PollenCLI.process_query; kept is self.last_data at the time of the call
process_query(kept, got, show_forecast, show_detailed, show_advice, output_json) ==
    IF IsRequestException(got.raised)
    THEN QueryResult(NoException, None, kept, <<Shown("error", None)>>)
    ELSE IF got.raised # NoException
    THEN QueryResult(got.raised, None, kept, <<>>)
    ELSE IF ~Truthy(got.value)
    THEN QueryResult(NoException, None, kept, <<Shown("no data", None)>>)
    ELSE IF output_json
    THEN QueryResult(NoException, got.value, got.value,
                     <<Shown("json", got.value)>>)
    ELSE LET shown == RunDisplays(<<Shown("current", got.value)>>
                                      \o OptionalDisplays(got.value, show_forecast,
                                                          show_detailed, show_advice),
                                  <<>>)
         IN  QueryResult(shown.raised,
                         IF shown.raised = NoException THEN got.value ELSE None,
                         got.value, shown.value)

\* variant: the prompt keeps nothing to answer from
commandWithoutLastData(kept, word) == <<Shown("no previous data", None)>>

\* the forecast / detailed / advice branches of the interactive loop
command(kept, word) ==
    IF Truthy(kept) THEN <<Shown(word, kept)>>
    ELSE <<Shown("no previous data", None)>>

-----------------------------------------------------------------------------
(* Requests to the front ends *)

NoRequest == [front |-> "none"]
ApiCall(kind, city) == [front |-> "api", kind |-> kind, city |-> city]
CliInput(kind, city) == [front |-> "cli", kind |-> kind, city |-> city]

Cities == {"London", "Leeds"}

\* element trees of the pages the source answers with
FrontMarkups ==
    {<<>>}
        \cup {<<b>> : b \in DayButtons}
        \cup {<<c, b>> : c \in {Leaf("input", [id |-> "cityName", value |-> "London"])},
                         b \in DayButtons}
        \cup {<<Leaf("input", [class |-> <<"pollen-lat">>, value |-> "51.5074"]),
                Leaf("input", [class |-> <<"pollen-lng">>, value |-> "-0.1278"])>>}
        \cup {<<c>> : c \in DiagramContainers}
        \cup {<<Tag("button",
                    [class |-> <<"day-link", "active">>] @@
                        ("data-grass" :> "High") @@
                        ("data-grass-detail" :> "Birch,abc,High"),
                    "", <<Span("day-name", "Wed")>>)>>}

WhitespaceChars == {"", "  "}

ResponseTexts ==
    {ResponseText(c, t) : c \in WhitespaceChars, t \in FrontMarkups}
        \cup {ResponseText(" Low ", <<>>)}

NetworkOutcomes ==
    {NetworkOutcome("", text) : text \in ResponseTexts}
        \cup {NetworkOutcome("post", EmptyText),
              NetworkOutcome("raise_for_status", EmptyText)}

CommandLine(city, f, d, a, i, j) ==
    [city |-> city, forecast |-> f, detailed |-> d, advice |-> a,
     interactive |-> i, json |-> j]

\* argparse results: interactive sessions, one-shot queries, and no city
CommandLines ==
    {CommandLine(NoneStr, FALSE, FALSE, FALSE, TRUE, j) : j \in BOOLEAN}
        \cup {CommandLine(city, f, d, a, FALSE, FALSE) :
                city \in Cities \cup {NoneStr}, f \in BOOLEAN, d \in BOOLEAN, a \in BOOLEAN}
        \cup {CommandLine(city, FALSE, FALSE, FALSE, FALSE, TRUE) : city \in Cities}

\* the location a query was made for, and the location the record now kept in
\* last_data was fetched for
Queried(previous, city, got) ==
    [city     |-> city,
     kept_for |-> IF got.raised = NoException /\ Truthy(got.value) THEN city
                  ELSE IF previous = None THEN NoneStr
                  ELSE previous.kept_for]

\* an API client requests one of the pollen endpoints
ApiRequest(kind) ==
    /\ request = NoRequest
    /\ \E city \in Cities, outcome \in NetworkOutcomes :
          /\ request' = ApiCall(kind, city)
          /\ fetch' = outcome
          /\ fetched' = get_pollen_data(outcome)
          /\ response' = Endpoint(kind, city, fetched')
    /\ UNCHANGED <<queried, args, last_data, coreVars, concVars, pureVars>>

GetPollenDataEndpoint == ApiRequest("pollen")
GetCurrentPollen == ApiRequest("current")
GetPollenForecast == ApiRequest("forecast")
GetHealthAdviceEndpoint == ApiRequest("advice")
GetDetailedBreakdown == ApiRequest("detailed")

\* the command-line tool is started
CliStart ==
    /\ args = None
    /\ request = NoRequest
    /\ \E line \in CommandLines : args' = line
    /\ last_data' = None
    /\ queried' = None
    /\ UNCHANGED <<request, fetch, response, fetched, coreVars, concVars, pureVars>>

\* a city or postcode is typed at the interactive prompt
CliQuery ==
    /\ args # None
    /\ args.interactive
    /\ request = NoRequest
    /\ \E city \in Cities, outcome \in NetworkOutcomes :
          /\ request' = CliInput("query", city)
          /\ fetch' = outcome
          /\ fetched' = get_pollen_data(outcome)
          /\ response' = process_query(last_data, fetched', TRUE, TRUE, TRUE, args.json)
          /\ last_data' = response'.last_data
          /\ queried' = Queried(queried, request'.city, fetched')
    /\ UNCHANGED <<args, coreVars, concVars, pureVars>>

\* forecast, detailed or advice is typed at the interactive prompt
CliCommand ==
    /\ args # None
    /\ args.interactive
    /\ request = NoRequest
    /\ \E word \in {"forecast", "detailed", "advice"} :
          /\ request' = CliInput(word, NoneStr)
          /\ response' = QueryResult(RunDisplays(command(last_data, word), <<>>).raised,
                                     None, last_data, command(last_data, word))
    /\ UNCHANGED <<queried, args, last_data, fetch, fetched, coreVars, concVars, pureVars>>

\* help is typed at the interactive prompt
CliHelp ==
    /\ args # None
    /\ args.interactive
    /\ request = NoRequest
    /\ request' = CliInput("help", NoneStr)
    /\ response' = QueryResult(NoException, None, last_data, <<Shown("help", None)>>)
    /\ UNCHANGED <<queried, args, last_data, fetch, fetched, coreVars, concVars, pureVars>>

\* quit, exit or q is typed, or the input ends: the process exits
CliQuit ==
    /\ args # None
    /\ args.interactive
    /\ request = NoRequest
    /\ args' = None
    /\ last_data' = None
    /\ queried' = None
    /\ UNCHANGED <<request, fetch, response, fetched, coreVars, concVars, pureVars>>

\* the tool was started with a city and without --interactive
CliOneShot ==
    /\ args # None
    /\ ~args.interactive
    /\ args.city # NoneStr
    /\ request = NoRequest
    /\ \E outcome \in NetworkOutcomes :
          /\ request' = CliInput("query", args.city)
          /\ fetch' = outcome
          /\ fetched' = get_pollen_data(outcome)
          /\ response' = process_query(last_data, fetched', args.forecast,
                                       args.detailed, args.advice, args.json)
          /\ last_data' = response'.last_data
          /\ queried' = Queried(queried, request'.city, fetched')
    /\ UNCHANGED <<args, coreVars, concVars, pureVars>>

\* the tool was started with neither a city nor --interactive
CliNoCity ==
    /\ args # None
    /\ ~args.interactive
    /\ args.city = NoneStr
    /\ request = NoRequest
    /\ request' = CliInput("usage", NoneStr)
    /\ response' = QueryResult(NoException, None, last_data, <<Shown("usage", None)>>)
    /\ UNCHANGED <<queried, args, last_data, fetch, fetched, coreVars, concVars, pureVars>>

\* the answer has been delivered; a one-shot run, or a run that an uncaught
\* exception ended, exits with it
Answered ==
    /\ request # NoRequest
    /\ request' = NoRequest
    /\ fetch' = None
    /\ fetched' = None
    /\ response' = None
    /\ IF request.front = "cli" /\ (~args.interactive \/ response.raised # NoException)
       THEN args' = None /\ last_data' = None /\ queried' = None
       ELSE UNCHANGED <<args, last_data, queried>>
    /\ UNCHANGED <<coreVars, concVars, pureVars>>

NextFrontEnd ==
    \/ GetPollenDataEndpoint
    \/ GetCurrentPollen
    \/ GetPollenForecast
    \/ GetHealthAdviceEndpoint
    \/ GetDetailedBreakdown
    \/ CliStart
    \/ CliQuery
    \/ CliCommand
    \/ CliHelp
    \/ CliQuit
    \/ CliOneShot
    \/ CliNoCity
    \/ Answered

SpecFrontEnd == Init /\ [][NextFrontEnd]_vars

-----------------------------------------------------------------------------
(* C15 *)

PollenEndpoints == {"pollen", "current", "forecast", "advice", "detailed"}

TransportErrorDetails ==
    {"Error fetching data: ConnectionError", "Error fetching data: HTTPError"}

NotFoundDetails ==
    {"No pollen data found for 'London'. Please check the location and try again.",
     "No pollen data found for 'Leeds'. Please check the location and try again."}

\* the request in progress is an API request for which the fetch raised
ApiTransportError ==
    /\ request.front = "api"
    /\ request.kind \in PollenEndpoints
    /\ fetch.raises # ""

\* the request in progress is an API request for which the fetch gave no data
ApiNoData ==
    /\ request.front = "api"
    /\ request.kind \in PollenEndpoints
    /\ fetched.raised = NoException
    /\ fetched.value = None

\* C15: on each of the five pollen endpoints a transport error raised while
\* fetching is answered with status 500 and a detail that starts with "Error
\* fetching data", never with 404 or 200, and a fetch that yields no data is
\* answered with status 404 and a detail that starts with "No pollen data found".
C15_ApiStatusMapping ==
    /\ ApiTransportError =>
          /\ response.status = 500
          /\ response.detail \in TransportErrorDetails
    /\ ApiNoData =>
          /\ response.status = 404
          /\ response.detail \in NotFoundDetails

C15_Witness ==
    /\ ApiTransportError
    /\ request.kind = "detailed"
    /\ fetch.raises = "raise_for_status"
    /\ response.status = 500

-----------------------------------------------------------------------------
(* C16 *)

\* the text the source returned has no character that is not white space
OnlyWhitespace(text) == text.tree = <<>> /\ text.chars \in WhitespaceChars

\* number of times a collaborator was called while fetching
TimesCalled(name) ==
    Cardinality({i \in DOMAIN fetched.calls : fetched.calls[i] = name})

\* C16: when the fetch succeeds and the returned text is empty or only white
\* space, get_pollen_data returns None and parse_html_response is not called;
\* when the text has other content parse_html_response is called exactly once,
\* and when the fetch raises it is not called.
C16_EmptyResponseIsNoData ==
    fetched # None =>
        /\ (fetch.raises = "" /\ OnlyWhitespace(fetch.text)) =>
              /\ fetched.raised = NoException
              /\ fetched.value = None
              /\ TimesCalled("parse_html_response") = 0
        /\ (fetch.raises = "" /\ ~OnlyWhitespace(fetch.text)) =>
              TimesCalled("parse_html_response") = 1
        /\ fetch.raises # "" => TimesCalled("parse_html_response") = 0

C16_Witness ==
    /\ fetched # None
    /\ fetch.raises = ""
    /\ fetch.text = ResponseText("  ", <<>>)
    /\ fetched.value = None
    /\ TimesCalled("parse_html_response") = 0

-----------------------------------------------------------------------------
(* C17 *)

\* the records the command-line answer in progress shows
AnsweredRecords ==
    IF request = NoRequest \/ request.front = "api" THEN {}
    ELSE {response.printed[i].data : i \in DOMAIN response.printed} \ {None}

\* the body of the API answer in progress is made of the record d
ApiAnswerFrom(d) ==
    CASE request.kind = "pollen" -> response.body = d
      [] request.kind = "current" ->
           /\ response.body.location = d.location
           /\ response.body.current_day = d.current_day
           /\ response.body.coordinates = d.coordinates
      [] request.kind = "forecast" ->
           /\ response.body.location = d.location
           /\ response.body.forecast = d.forecast
           /\ response.body.coordinates = d.coordinates
      [] request.kind = "advice" -> response.body = get_health_advice(d).value
      [] request.kind = "detailed" ->
           /\ response.body.location = d.location
           /\ response.body.detailed_breakdown = d.detailed_breakdown
           /\ response.body.coordinates = d.coordinates

\* the API request in progress is answered with data
ApiAnswersData ==
    /\ request.front = "api"
    /\ response.status = 200

\* the request in progress fetched a record itself
FetchedRecord ==
    /\ fetched # None
    /\ fetched.raised = NoException
    /\ fetched.value # None

DisplayCommands == {"forecast", "detailed", "advice"}

\* C17 as stated: no record outlives the request it was fetched for, and every
\* answer is made of the record its own request fetched.
C17_NoRecordRetained ==
    /\ request = NoRequest => last_data = None
    /\ \A d \in AnsweredRecords : FetchedRecord /\ d = fetched.value
    /\ ApiAnswersData => FetchedRecord /\ ApiAnswerFrom(fetched.value)

\* C17 amended: API requests, and location queries of the command-line tool,
\* answer only from the record they fetched themselves, and nothing is kept
\* outside a running command-line tool; but the running tool keeps the last
\* record it fetched in last_data, and its forecast, detailed and advice
\* commands answer from that record without fetching.
C17_OnlyCliKeepsLastRecord ==
    /\ args = None => last_data = None
    /\ ApiAnswersData => FetchedRecord /\ ApiAnswerFrom(fetched.value)
    /\ (request # NoRequest /\ request.kind \notin DisplayCommands) =>
          \A d \in AnsweredRecords : FetchedRecord /\ d = fetched.value
    /\ (request # NoRequest /\ request.front = "cli" /\ request.kind = "query"
            /\ FetchedRecord) =>
          last_data = fetched.value
    /\ (request # NoRequest /\ request.front = "cli"
            /\ request.kind \in DisplayCommands) =>
          /\ fetch = None
          /\ fetched = None
          /\ last_data # None =>
                response.printed = <<[section |-> request.kind, data |-> last_data]>>
          /\ last_data = None => AnsweredRecords = {}

C17_Witness ==
    /\ request # NoRequest
    /\ request.front = "cli"
    /\ request.kind = "forecast"
    /\ fetch = None
    /\ last_data # None
    /\ AnsweredRecords = {last_data}

-----------------------------------------------------------------------------
(* parse_html_response and get_health_advice, statement by statement, with  *)
(* several callers inside them at once                                      *)

\* variant: every activation uses one and the same set of local variables
FrameOfShared(c) == CHOOSE f \in Callers : TRUE

\* the activation record holding the local variables of caller c's invocation
FrameOf(c) == c

\* variant: the dict of the previous activation is filled further
NewDataKept(previous) ==
    IF previous # None THEN previous
    ELSE [location           |-> "",
          coordinates        |-> [latitude |-> "", longitude |-> ""],
          current_day        |-> EmptyDict,
          forecast           |-> EmptyList,
          detailed_breakdown |-> EmptyDict]

\* the dict literal bound to the local  data, whatever the frame held before
NewData(previous) ==
    [location           |-> "",
     coordinates        |-> [latitude |-> "", longitude |-> ""],
     current_day        |-> EmptyDict,
     forecast           |-> EmptyList,
     detailed_breakdown |-> EmptyDict]

\* the lists  high_levels = []  and  moderate_levels = []
NewLevels(previous) == [high_levels |-> EmptyList, moderate_levels |-> EmptyList]

\* variant: the category is read with setdefault, which stores the default
DictAfterSetdefault(d, key, default) ==
    IF key \in DOMAIN d THEN d ELSE DictSet(d, key, default)

\* the dict d after  d.get(key, default): get stores nothing
DictAfterGet(d, key, default) == d

\* the record after the three  current.get(name, {})  of the loop's list
RECURSIVE AfterCategoryGets(_, _)
AfterCategoryGets(current, i) ==
    IF i > Len(CategoryNames) THEN current
    ELSE AfterCategoryGets(DictAfterGet(current, CategoryNames[i], EmptyDict), i + 1)

\* the if / elif of the classification loop for one category
ClassifyStep(level, category_name, levels) ==
    IF level \in {"high", "very high"}
    THEN [levels EXCEPT !.high_levels = Append(@, category_name)]
    ELSE IF level = "moderate"
    THEN [levels EXCEPT !.moderate_levels = Append(@, category_name)]
    ELSE levels

Entered(op, input, line) ==
    [op |-> op, input |-> input, line |-> line, i |-> 1, result |-> None]

Returned(invocation, result) ==
    [invocation EXCEPT !.line = "done", !.result = result]

\* caller c is in no invocation: it has made none yet or holds a returned value
Free(c) == calling[c].line = "done"

\* markup the concurrent callers hand to parse_html_response
ConcurrentMarkups ==
    {<<>>,
     <<Leaf("input", [id |-> "cityName", value |-> "London"])>>,
     <<Tag("button",
           [class |-> <<"day-link", "active">>] @@ FullDayAttrs("High", "Moderate", "Low"),
           "", <<Span("day-name", " Mon "), Span("day-number", " 15")>>)>>,
     <<Tag("button",
           [class |-> <<"day-link", "active">>] @@ FullDayAttrs("High", "Moderate", "Low"),
           "", <<Span("day-name", " Mon "), Span("day-number", " 15")>>),
       Tag("button",
           [class |-> <<"day-link">>] @@ FullDayAttrs("Moderate", "Low", ""),
           "", <<Span("day-number", "17"), Span("day-name", "Wed")>>)>>,
     <<Tag("li", [class |-> <<"diagram-container">>] @@ ("data-details" :> "grass"),
           "", <<Para("level-text", "High"), Para("ppm-level", "50-100 ppm")>>)>>,
     <<Leaf("input", [class |-> <<"pollen-lat">>, value |-> "51.5074"]),
       Leaf("input", [class |-> <<"pollen-lng">>, value |-> "-0.1278"]),
       Tag("li", [class |-> <<"diagram-container">>] @@ ("data-details" :> "trees"),
           "", <<Para("ppm-level", "0-20 ppm ")>>)>>}

\* records the concurrent callers hand to get_health_advice
ConcurrentAdviceInputs ==
    {None, [current_day |-> EmptyDict],
     [current_day |-> CurrentDayOf("High", "Moderate", "Low")],
     [current_day |-> CurrentDayOf("absent", "MODERATE", "absent")],
     [current_day |-> CurrentDayOf("Very High", "absent", "empty")],
     [current_day |-> CurrentDayOf("Moderate", "none", "High")]}

\* caller c calls parse_html_response:  data = {...}
CallExtract(c) ==
    /\ Free(c)
    /\ \E markup \in ConcurrentMarkups :
          calling' = [calling EXCEPT ![c] = Entered("extract", markup, "inputs")]
    /\ frames' = [frames EXCEPT ![FrameOf(c)].data = NewData(@)]
    /\ UNCHANGED <<coreVars, frontVars, pureVars>>

\* caller c is inside op at the given line
At(c, op, line) == calling[c].op = op /\ calling[c].line = line

\* the city input and the two coordinate inputs
ExtractInputs(c) ==
    /\ At(c, "extract", "inputs")
    /\ frames' = [frames EXCEPT ![FrameOf(c)].data =
                    [@ EXCEPT !.location = LocationOf(calling[c].input),
                              !.coordinates = CoordinatesOf(calling[c].input)]]
    /\ calling' = [calling EXCEPT ![c].line = "days"]
    /\ UNCHANGED <<coreVars, frontVars, pureVars>>

\* one pass of the loop over day_buttons, or its end
ExtractDay(c) ==
    /\ At(c, "extract", "days")
    /\ LET day_buttons == find_all(calling[c].input, "button", "class", "day-link")
           i == calling[c].i
       IN  IF i > Len(day_buttons)
           THEN /\ calling' = [calling EXCEPT ![c].line = "containers", ![c].i = 1]
                /\ UNCHANGED frames
           ELSE LET button == day_buttons[i]
                    day_data == DayData(button)
                IN  IF day_data.raised # NoException
                    THEN /\ calling' = [calling EXCEPT ![c] = Returned(@, day_data)]
                         /\ UNCHANGED frames
                    ELSE /\ frames' = [frames EXCEPT ![FrameOf(c)].data =
                                [@ EXCEPT !.forecast = Append(@, day_data.value),
                                          !.current_day = IF IsActive(button)
                                                          THEN day_data.value ELSE @]]
                         /\ calling' = [calling EXCEPT ![c].i = i + 1]
    /\ UNCHANGED <<coreVars, frontVars, pureVars>>

\* one pass of the loop over diagram_containers, or its end
ExtractContainer(c) ==
    /\ At(c, "extract", "containers")
    /\ LET diagram_containers ==
               find_all(calling[c].input, "li", "class", "diagram-container")
           i == calling[c].i
       IN  IF i > Len(diagram_containers)
           THEN /\ calling' = [calling EXCEPT ![c].line = "return"]
                /\ UNCHANGED frames
           ELSE LET step == BreakdownStep(diagram_containers[i],
                                          frames[FrameOf(c)].data.detailed_breakdown)
                IN  IF step.raised # NoException
                    THEN /\ calling' = [calling EXCEPT ![c] = Returned(@, step)]
                         /\ UNCHANGED frames
                    ELSE /\ frames' = [frames EXCEPT ![FrameOf(c)].data =
                                [@ EXCEPT !.detailed_breakdown = step.value]]
                         /\ calling' = [calling EXCEPT ![c].i = i + 1]
    /\ UNCHANGED <<coreVars, frontVars, pureVars>>

\* return data
ExtractReturn(c) ==
    /\ At(c, "extract", "return")
    /\ calling' = [calling EXCEPT ![c] = Returned(@, Ok(frames[FrameOf(c)].data))]
    /\ UNCHANGED <<frames, coreVars, frontVars, pureVars>>

\* caller c calls get_health_advice: the early exit, or the two lists
CallAdvise(c) ==
    /\ Free(c)
    /\ \E d \in ConcurrentAdviceInputs :
          IF NoCurrentDay(d)
          THEN /\ calling' = [calling EXCEPT ![c] =
                      Returned(Entered("advise", d, "check"), Ok(UnknownReport))]
               /\ UNCHANGED frames
          ELSE /\ frames' = [frames EXCEPT ![FrameOf(c)].levels = NewLevels(@)]
               /\ calling' = [calling EXCEPT ![c] = Entered("advise", d, "categories")]
    /\ UNCHANGED <<coreVars, frontVars, pureVars>>

\* the list of the three (category_name, category) pairs
AdviseCategories(c) ==
    /\ At(c, "advise", "categories")
    /\ calling' = [calling EXCEPT
          ![c].line = "classify",
          ![c].input = [@ EXCEPT !.current_day = AfterCategoryGets(@, 1)]]
    /\ UNCHANGED <<frames, coreVars, frontVars, pureVars>>

\* one pass of the loop over the three categories
AdviseClassify(c) ==
    /\ At(c, "advise", "classify")
    /\ LET i == calling[c].i
           category_name == CategoryNames[i]
           current == calling[c].input.current_day
           level == LevelOf(DictGet(current, category_name, EmptyDict))
       IN  IF level.raised # NoException
           THEN /\ calling' = [calling EXCEPT ![c] = Returned(@, level)]
                /\ UNCHANGED frames
           ELSE /\ frames' = [frames EXCEPT ![FrameOf(c)].levels =
                                 ClassifyStep(level.value, category_name, @)]
                /\ calling' = [calling EXCEPT
                      ![c].i = i + 1,
                      ![c].line = IF i = Len(CategoryNames) THEN "tier" ELSE @]
    /\ UNCHANGED <<coreVars, frontVars, pureVars>>

\* the tier block, the general tips and the return
AdviseReturn(c) ==
    /\ At(c, "advise", "tier")
    /\ LET levels == frames[FrameOf(c)].levels
           tier == TierOf(levels.high_levels, levels.moderate_levels)
       IN  calling' = [calling EXCEPT ![c] =
               Returned(@, Ok([advice          |-> tier.advice \o GeneralTips,
                               alert_level     |-> tier.alert_level,
                               high_levels     |-> levels.high_levels,
                               moderate_levels |-> levels.moderate_levels]))]
    /\ UNCHANGED <<frames, coreVars, frontVars, pureVars>>

NextConcurrent ==
    \E c \in Callers :
        \/ CallExtract(c)
        \/ ExtractInputs(c)
        \/ ExtractDay(c)
        \/ ExtractContainer(c)
        \/ ExtractReturn(c)
        \/ CallAdvise(c)
        \/ AdviseCategories(c)
        \/ AdviseClassify(c)
        \/ AdviseReturn(c)

SpecConcurrent == Init /\ [][NextConcurrent]_vars

-----------------------------------------------------------------------------
(* C18 *)

\* caller c has been returned a value by op
Done(c, op) == calling[c].op = op /\ calling[c].line = "done"

\* what the invocation caller c made returns when nothing else runs
AloneResult(c) ==
    IF calling[c].op = "extract" THEN parse_html_response(calling[c].input)
    ELSE get_health_advice(calling[c].input)

\* C18: however the statements of several callers' parse_html_response and
\* get_health_advice invocations interleave, each invocation returns what it
\* returns when it runs alone on its own input.
C18_InvocationsIndependent ==
    \A c \in Callers :
        (Done(c, "extract") \/ Done(c, "advise")) => calling[c].result = AloneResult(c)

C18_Witness ==
    /\ Done("first", "extract")
    /\ Len(calling["first"].result.value.forecast) > 1
    /\ calling["first"].result = AloneResult("first")
    /\ At("second", "advise", "classify")
    /\ calling["second"].i > 1

-----------------------------------------------------------------------------
(* C19 *)

\* no step of get_health_advice changes the record the invocation was given
AdviseKeepsRecord ==
    \A c \in Callers :
        (calling[c].op = "advise" /\ ~Free(c)) => calling'[c].input = calling[c].input

\* two finished calls on equal records have returned equal reports
EqualRecordsEqualReports ==
    \A c \in Callers, o \in Callers :
        (Done(c, "advise") /\ Done(o, "advise")
            /\ calling[c].input = calling[o].input) =>
            calling[c].result = calling[o].result

\* C19: get_health_advice leaves the record it is given unchanged, no field of
\* the record or of current_day being added, removed or modified, and two
\* calls on equal records return equal reports.
C19_AdvisePure ==
    /\ [][AdviseKeepsRecord]_vars
    /\ []EqualRecordsEqualReports

C19_Witness ==
    /\ Done("first", "advise")
    /\ Done("second", "advise")
    /\ calling["first"].input = [current_day |-> CurrentDayOf("absent", "MODERATE", "absent")]
    /\ calling["second"].input = calling["first"].input
    /\ calling["first"].result.value.alert_level = "moderate"
    /\ calling["second"].result = calling["first"].result

-----------------------------------------------------------------------------
(* C20 *)

\* C20: two calls of parse_html_response on identical markup, whatever other
\* calls were made before and between them, return structurally equal records.
C20_ExtractDeterministic ==
    \A c \in Callers, o \in Callers :
        (Done(c, "extract") /\ Done(o, "extract")
            /\ calling[c].input = calling[o].input) =>
            calling[c].result = calling[o].result

C20_Witness ==
    /\ Done("first", "extract")
    /\ Done("second", "extract")
    /\ calling["first"].input = calling["second"].input
    /\ Len(calling["first"].result.value.forecast) > 1
    /\ calling["first"].result.value.detailed_breakdown = EmptyDict
    /\ calling["first"].result = calling["second"].result

-----------------------------------------------------------------------------
(* C21 *)

\* the API request in progress is for the endpoint kind and found data
ApiFoundData(kind) ==
    /\ request.front = "api"
    /\ request.kind = kind
    /\ fetched.raised = NoException
    /\ fetched.value # None

DetailedBodyFields == {"location", "detailed_breakdown", "current_day", "coordinates"}

\* C21: when data is found, /pollen/{city}/detailed responds 200 with a body
\* that contains location, detailed_breakdown, current_day and coordinates.
C21_DetailedBody ==
    ApiFoundData("detailed") =>
        /\ response.status = 200
        /\ DetailedBodyFields \subseteq DOMAIN response.body

-----------------------------------------------------------------------------
(* C22 *)

\* C22: whenever the fetch returns non-blank markup, GET /pollen/{city}
\* responds 200 with the extracted record, also when no day control was marked
\* active and current_day is empty.
C22_PollenEndpointReturnsRecord ==
    ApiFoundData("pollen") =>
        /\ response.status = 200
        /\ response.body = fetched.value

\* sep.join(runs): the runs of pieces with the separator between them
RECURSIVE JoinPieces(_, _)
JoinPieces(runs, sep) ==
    IF runs = <<>> THEN <<>>
    ELSE IF Len(runs) = 1 THEN Head(runs)
    ELSE Head(runs) \o <<sep>> \o JoinPieces(Tail(runs), sep)

\* the pieces of the string "f1,f2,..." an entry with these fields is written as
EntryPieces(entry) ==
    JoinPieces([i \in DOMAIN entry |-> IF entry[i] = "" THEN <<>> ELSE <<entry[i]>>], ",")

\* the pieces of the detail string "entry|entry|..."
DetailPieces(entries) ==
    JoinPieces([i \in DOMAIN entries |-> EntryPieces(entries[i])], "|")

MaxEntries == 3

\* the entries a detail attribute of the source may hold, as their fields
EntryChoices ==
    {<<"Timothy", "42", "Moderate">>, <<"Rye", "0", "Low">>,
     <<"Oak", "12", "Low", "extra">>, <<"Birch", "abc", "High">>,
     <<"Ash", "7">>, <<"Elm">>, <<"">>, <<"Nettle", "-3", "Low">>,
     <<"Alder", "", "Low">>}

DetailInputs == UNION {[1..n -> EntryChoices] : n \in 0..MaxEntries}

\* display_detailed_analysis comes to a category whose detail string is made
\* of the given entries
ConsumeDetailString ==
    /\ given = None
    /\ \E entries \in DetailInputs :
          /\ given' = [entries |-> entries, detail |-> DetailPieces(entries)]
          /\ yielded' = ConsumeDetail(given'.detail)
    /\ UNCHANGED <<coreVars, frontVars, concVars>>

\* the caller of a function called on its own is done with what it yielded
Dismiss ==
    /\ given # None
    /\ given' = None
    /\ yielded' = None
    /\ UNCHANGED <<coreVars, frontVars, concVars>>

NextDetail == ConsumeDetailString \/ Dismiss

SpecDetail == Init /\ [][NextDetail]_vars

-----------------------------------------------------------------------------
(* C23 *)

PositivePpm == {"7", "12", "42"}
IntegerPpm == PositivePpm \cup {"0", "-3"}

\* a detail string has been consumed
DetailConsumed == given # None /\ "detail" \in DOMAIN given

\* the entry has at least three fields and a PPM above zero
Displayable(entry) == Len(entry) >= 3 /\ entry[2] \in PositivePpm

\* the lines of the displayable entries, in their order
DisplayableLines ==
    LET kept == SelectSeq(given.entries, Displayable)
    IN  [i \in DOMAIN kept |->
            [name |-> kept[i][1], ppm |-> kept[i][2], level |-> kept[i][3]]]

\* C23: consuming a detail string never fails: an entry whose PPM field is not
\* an integer is skipped like an entry with fewer than three fields, and the
\* other entries are still displayed.
C23_UnparsablePpmSkipped ==
    DetailConsumed =>
        /\ yielded.raised = NoException
        /\ yielded.value = DisplayableLines

-----------------------------------------------------------------------------
(* C24 *)

\* every PPM field of the consumed detail string is an integer
IntegerPpmFields ==
    \A i \in DOMAIN given.entries :
        Len(given.entries[i]) >= 2 => given.entries[i][2] \in IntegerPpm

\* C24: of a detail string whose PPM fields are integers, exactly the entries
\* with at least three comma-separated fields and a PPM above zero are
\* displayed, in their original order.
C24_DetailFiltering ==
    (DetailConsumed /\ IntegerPpmFields) =>
        /\ yielded.raised = NoException
        /\ yielded.value = DisplayableLines

C24_Witness ==
    /\ DetailConsumed
    /\ given.entries = <<<<"Timothy", "42", "Moderate">>, <<"Rye", "0", "Low">>>>
    /\ yielded.raised = NoException
    /\ Len(yielded.value) = 1
    /\ yielded.value[1].name = "Timothy"

-----------------------------------------------------------------------------
(* C25 *)

\* the forecast command of the interactive prompt is being answered with data
ForecastCommandShowsData ==
    /\ request.front = "cli"
    /\ request.kind = "forecast"
    /\ AnsweredRecords # {}

\* C25: after any sequence of location queries and commands, the forecast
\* command displays the data of the location that was queried last.
C25_ForecastOfLastQueried ==
    ForecastCommandShowsData =>
        /\ AnsweredRecords = {last_data}
        /\ queried.kept_for = queried.city

-----------------------------------------------------------------------------
(* C26 *)

\* this step is process_query being called
QueryStep == request = NoRequest /\ request'.front = "cli" /\ request'.kind = "query"

\* this step is one of the display commands or help being answered
CommandStep ==
    /\ request = NoRequest
    /\ request'.front = "cli"
    /\ request'.kind \in DisplayCommands \cup {"help"}

\* the fetch of the request being made now returned a non-empty record
FetchedRecordNow ==
    /\ fetched'.raised = NoException
    /\ fetched'.value # None
    /\ fetched'.value # EmptyDict

LastDataFrame ==
    /\ (QueryStep /\ FetchedRecordNow) => last_data' = fetched'.value
    /\ (QueryStep /\ ~FetchedRecordNow) =>
          /\ last_data' = last_data
          /\ response'.returned = None
    /\ CommandStep => last_data' = last_data
    /\ (args # None /\ args' # None /\ last_data # None) => last_data' # None

\* C26: process_query sets last_data to the fetched record when the fetch
\* returns a non-empty one, also with JSON output, and otherwise returns None
\* and leaves last_data as it was; the display commands never change it; while
\* the tool runs, last_data once set is never None again.
C26_LastDataFrame == [][LastDataFrame]_vars

C26_Witness ==
    /\ request.front = "cli"
    /\ request.kind = "query"
    /\ args.interactive
    /\ fetch.raises = "post"
    /\ response.returned = None
    /\ last_data # None


-----------------------------------------------------------------------------
(* current_day and forecast *)

\* C27: in every record parse_html_response returns, current_day is empty or
\* equal to one of the entries of forecast; so a record with a non-empty
\* current_day has a non-empty forecast.
C27_CurrentDayInForecast ==
    (Extracted /\ raised = NoException) =>
        /\ \/ data.current_day = EmptyDict
           \/ \E i \in DOMAIN data.forecast : data.forecast[i] = data.current_day
        /\ data.current_day # EmptyDict => data.forecast # EmptyList

\* a record whose current_day is the second of two forecast entries that differ
C27_Witness ==
    /\ Extracted
    /\ raised = NoException
    /\ data.current_day # EmptyDict
    /\ Len(data.forecast) >= 2
    /\ data.forecast[1] # data.current_day
    /\ \E i \in DOMAIN data.forecast : data.forecast[i] = data.current_day

-----------------------------------------------------------------------------
(* Two calls side by side *)

\* the level strings of the records handed to two calls of get_health_advice
GrassTreesLevels == {"", "Low", "moderate", "Moderate", "High", "HIGH"}
WeedsLevels == {"", "Very High", "VERY HIGH"}

\* a day entry as parse_html_response builds it from a complete day control
FullDay(g, t, w) ==
    [day_name   |-> "Mon",
     day_number |-> "15",
     grass |-> [level |-> g, count |-> "4", detail |-> "Timothy,42,Moderate|Rye,0,Low"],
     trees |-> [level |-> t, count |-> "3", detail |-> "Oak,12,Low"],
     weeds |-> [level |-> w, count |-> "1", detail |-> "Nettle,0,Low"]]

\* a complete record
FullRecord(g, t, w) ==
    [location           |-> "London",
     coordinates        |-> [latitude |-> "51.5074", longitude |-> "-0.1278"],
     current_day        |-> FullDay(g, t, w),
     forecast           |-> <<FullDay(g, t, w), FullDay("Low", "Low", "")>>,
     detailed_breakdown |-> ("grass" :> [level |-> "High", ppm |-> "50-100 ppm"])]

\* a record of another location on another day, with every other field at its
\* default
SparseRecord(g, t, w) ==
    [location           |-> "Leeds",
     coordinates        |-> [latitude |-> "", longitude |-> ""],
     current_day        |-> [day_name   |-> "Tue",
                             day_number |-> "",
                             grass |-> [level |-> g, count |-> "", detail |-> ""],
                             trees |-> [level |-> t, count |-> "", detail |-> ""],
                             weeds |-> [level |-> w, count |-> "", detail |-> ""]],
     forecast           |-> EmptyList,
     detailed_breakdown |-> EmptyDict]

\* a dict that has nothing but current_day, where a category with level "" is
\* left out and the others have nothing but their level
BareRecord(g, t, w) ==
    LET present == {n \in {"grass", "trees", "weeds"} :
                        CASE n = "grass" -> g # ""
                          [] n = "trees" -> t # ""
                          [] n = "weeds" -> w # ""}
    IN  [current_day |->
            [n \in present \cup {"day_name"} |->
                CASE n = "grass" -> [level |-> g]
                  [] n = "trees" -> [level |-> t]
                  [] n = "weeds" -> [level |-> w]
                  [] n = "day_name" -> "Wed"]]

OtherRecords(g, t, w) == {SparseRecord(g, t, w), BareRecord(g, t, w)}

\* get_health_advice is called on a complete record and on another record
AdviseTwo ==
    /\ given = None
    /\ \E g1 \in GrassTreesLevels, t1 \in GrassTreesLevels, w1 \in WeedsLevels,
          g2 \in GrassTreesLevels, t2 \in GrassTreesLevels, w2 \in WeedsLevels :
          \E other \in OtherRecords(g2, t2, w2) :
             /\ given' = [call   |-> "advise",
                          first  |-> FullRecord(g1, t1, w1),
                          second |-> other]
             /\ yielded' = [first  |-> get_health_advice(given'.first),
                            second |-> get_health_advice(given'.second)]
    /\ UNCHANGED <<coreVars, frontVars, concVars>>

MaxFirst == 2

\* the elements of the markups handed to two calls of parse_html_response:
\* some of each field group, a div wrapping a city-name input and a longitude
\* input, and a button that is not a day control
CompareElements ==
    {Leaf("input", [id |-> "cityName", value |-> "London"]),
     Leaf("input", [class |-> <<"pollen-lat">>, value |-> "51.5074"]),
     Leaf("input", [class |-> <<"pollen-lng">>, value |-> "-0.1278"]),
     Tag("button",
         [class |-> <<"day-link", "active">>] @@ FullDayAttrs("High", "Moderate", "Low"),
         "", <<Span("day-name", " Mon "), Span("day-number", " 15")>>),
     Tag("button",
         [class |-> <<"day-link">>] @@ FullDayAttrs("Moderate", "Low", ""),
         "", <<Span("day-number", "17"), Span("day-name", "Wed")>>),
     Tag("li", [class |-> <<"diagram-container">>] @@ ("data-details" :> "grass"),
         "", <<Para("level-text", "High"), Para("ppm-level", "50-100 ppm")>>),
     Tag("li", [class |-> <<"diagram-container">>] @@ ("data-details" :> "trees"),
         "", <<Para("ppm-level", "0-20 ppm ")>>),
     Tag("div", [class |-> <<"wrapper">>], "",
         <<Leaf("input", [id |-> "cityName", value |-> "Leeds"]),
           Leaf("input", [class |-> <<"pollen-lng">>, value |-> "-1.5491"])>>),
     Tag("button", [class |-> <<"active">>] @@ ("data-grass" :> "High"),
         "", <<Span("day-name", "Mon")>>)}

CompareMarkups == UNION {[1..n -> CompareElements] : n \in 0..MaxFirst}

\* the markup with the elements  removed  taken out at position p and the
\* elements  added  put in their place
Edited(markup, p, removed, added) ==
    SubSeq(markup, 1, p - 1) \o added
        \o SubSeq(markup, p + Len(removed), Len(markup))

\* parse_html_response is called on a markup and on the markup after one
\* element was added, removed or replaced
ExtractTwo ==
    /\ given = None
    /\ \E markup \in CompareMarkups, p \in 1..(MaxFirst + 1), n \in 0..1,
          added \in {<<>>} \cup {<<e>> : e \in CompareElements} :
          /\ p + n - 1 <= Len(markup)
          /\ n = 1 \/ added # <<>>
          /\ given' = [call    |-> "extract",
                       first   |-> markup,
                       second  |-> Edited(markup, p, SubSeq(markup, p, p + n - 1), added),
                       removed |-> SubSeq(markup, p, p + n - 1),
                       added   |-> added]
          /\ yielded' = [first  |-> parse_html_response(given'.first),
                         second |-> parse_html_response(given'.second)]
    /\ UNCHANGED <<coreVars, frontVars, concVars>>

\* the same dict or None is handed to get_health_advice of the package and to
\* PollenTracker.get_health_advice of the single-file program
AdviseBoth ==
    /\ given = None
    /\ \E d \in AdviceInputs :
          /\ given' = [call |-> "both", data |-> d]
          /\ yielded' = [core   |-> get_health_advice(given'.data),
                         legacy |-> legacy_get_health_advice(given'.data)]
    /\ UNCHANGED <<coreVars, frontVars, concVars>>

NextCompare == AdviseTwo \/ ExtractTwo \/ AdviseBoth \/ Dismiss

SpecCompare == Init /\ [][NextCompare]_vars

\* the three level strings of a record's current_day, lower-cased
LevelsAfterLower(d) ==
    [n \in {"grass", "trees", "weeds"} |->
        LowerTable[DictGet(DictGet(d.current_day, n, EmptyDict), "level", "")]]

AdvisedTwo == given # None /\ given.call = "advise"

\* C28: two records that both have a non-empty current_day and agree, after
\* lower-casing, on the grass, trees and weeds levels get identical reports
\* from get_health_advice, whatever their other fields are.
C28_AdviceFromLevelsOnly ==
    (/\ AdvisedTwo
     /\ yielded.first.raised = NoException
     /\ yielded.second.raised = NoException
     /\ given.first.current_day # EmptyDict
     /\ given.second.current_day # EmptyDict
     /\ LevelsAfterLower(given.first) = LevelsAfterLower(given.second))
        => yielded.first.value = yielded.second.value

\* two records that agree on the levels only after lower-casing and differ in
\* location, forecast and the fields of the day, and got a high alert
C28_Witness ==
    /\ AdvisedTwo
    /\ given.first.current_day.grass.level = "High"
    /\ DictGet(DictGet(given.second.current_day, "grass", EmptyDict), "level", "") = "HIGH"
    /\ "trees" \notin DOMAIN given.second.current_day
    /\ LevelsAfterLower(given.first) = LevelsAfterLower(given.second)
    /\ "location" \notin DOMAIN given.second
    /\ yielded.first.raised = NoException
    /\ yielded.first.value = yielded.second.value
    /\ yielded.first.value.alert_level = "high"

-----------------------------------------------------------------------------
(* Field groups *)

FieldGroups == {"city", "coordinates", "days", "containers"}

\* the field groups that have an element among the given elements or inside
\* them
GroupsOf(elements) ==
    {g \in FieldGroups :
        CASE g = "city"        -> CityNameInputs(elements) # <<>>
          [] g = "coordinates" -> LatitudeInputs(elements) \o LongitudeInputs(elements) # <<>>
          [] g = "days"        -> DayControls(elements) # <<>>
          [] g = "containers"  -> Containers(elements) # <<>>}

\* the record fields parse_html_response fills from a field group
FieldsOf(g) ==
    CASE g = "city"        -> {"location"}
      [] g = "coordinates" -> {"coordinates"}
      [] g = "days"        -> {"current_day", "forecast"}
      [] g = "containers"  -> {"detailed_breakdown"}

ExtractedTwo == given # None /\ given.call = "extract"

\* the field groups the edit between the two markups touched
Touched == GroupsOf(given.removed \o given.added)

\* C29: adding, removing or changing the markup elements of one field group
\* leaves the record fields derived from the other groups unchanged.
C29_FieldGroupsIndependent ==
    (/\ ExtractedTwo
     /\ yielded.first.raised = NoException
     /\ yielded.second.raised = NoException)
        => \A g \in FieldGroups \ Touched :
              \A f \in FieldsOf(g) :
                 yielded.first.value[f] = yielded.second.value[f]

\* a longitude input was added to a markup with a city-name input and a
\* latitude input: coordinates changed, location did not
C29_Witness ==
    /\ ExtractedTwo
    /\ Touched = {"coordinates"}
    /\ yielded.first.raised = NoException
    /\ yielded.second.raised = NoException
    /\ yielded.first.value.coordinates # yielded.second.value.coordinates
    /\ yielded.first.value.location = "London"
    /\ yielded.second.value.location = "London"

-----------------------------------------------------------------------------
(* The two advice implementations *)

AdvisedBoth == given # None /\ given.call = "both"

\* C30: for every input on which one of PollenTracker.get_health_advice of
\* src/main.py and pollenpal.core.health.get_health_advice returns, the other
\* returns too and the two reports are equal: the same advice lines in the
\* same order, the same alert_level, high_levels and moderate_levels.
C30_AdviceImplementationsAgree ==
    (/\ AdvisedBoth
     /\ \/ yielded.core.raised = NoException
        \/ yielded.legacy.raised = NoException)
        => yielded.core = yielded.legacy

\* both implementations answered a record with high trees and moderate grass
\* by the same high alert
C30_Witness ==
    /\ AdvisedBoth
    /\ yielded.legacy.raised = NoException
    /\ yielded.legacy = yielded.core
    /\ yielded.legacy.value.alert_level = "high"
    /\ yielded.legacy.value.high_levels = <<"trees">>
    /\ yielded.legacy.value.moderate_levels = <<"grass">>
    /\ Len(yielded.legacy.value.advice) = 9
=============================================================================
